---- MODULE Spec2Model ----
(***************************************************************************)
(* A model of util/cmake/pro2cmake.py: the operation/value model of a      *)
(* Scope (Operation.process and Scope.get), the condition algebra          *)
(* (map_condition, simplify_condition and the sympy calls it makes) and    *)
(* the scope tree pipeline of write_main_part (Scope.FromDict,             *)
(* recursive_evaluate_scope, flatten_scopes, merge_scopes) and the text    *)
(* generate_cmakelists writes for a file (cmakeify_scope, handle_subdir,   *)
(* handle_app_or_lib, write_main_part, write_sources_section,              *)
(* write_ignored_keys, write_extend_target).                               *)
(*                                                                         *)
(* Python strings are TLA+ strings (Len, SubSeq and \o act on them as on   *)
(* Python's str), Python lists are sequences.                              *)
(***************************************************************************)
EXTENDS Naturals, Sequences, FiniteSets, TLC

VARIABLES
    operations,     \* Scope._operations of the scope of SpecOps: key -> operations
    visited_keys,   \* Scope._visited_keys of that scope
    result,         \* the list the last Scope.get call returned
    called,         \* the key of the last Scope.get call, "" before any call
    scopes,         \* the Scope objects made so far, in order of construction
    pc,             \* how far the run of the converter is
    flat,           \* what flatten_scopes returned (scope numbers)
    merged,         \* what merge_scopes returned (scope numbers)
    condition_in,   \* the argument of a simplify_condition call
    condition_out,  \* what the call returned
    returned,       \* the default and the outcome of the last Scope.getString call
    ignored_keys,   \* what write_sources_section returned
    output,         \* what the run wrote to the CMakeLists.txt file (cm_fh)
    raised          \* the error that ended the run, None while none did

opsVars == <<operations, visited_keys, result, called>>

treeVars == <<scopes, pc, flat, merged>>

condVars == <<condition_in, condition_out>>

keyVars == <<returned, ignored_keys, output, raised>>

vars == <<operations, visited_keys, result, called,
          scopes, pc, flat, merged, condition_in, condition_out,
          returned, ignored_keys, output, raised>>

\* The value of a variable of one of the state machines below while
\* another of them runs, and of a field that is None.
None == "<None>"

(***************************************************************************)
(* Bounds of the model and the inputs drawn in it.                         *)
(***************************************************************************)
MaxOps == 2         \* operations appended to one key
MaxLen == 2         \* length of the value list of one operation

Values == {"a", "b"}

Keys == {"CONFIG"}

OpKinds == {"Set", "Add", "UniqueAdd", "Remove"}

RECURSIVE SeqsUpTo(_, _)
SeqsUpTo(S, n) ==
    IF n = 0 THEN {<<>>}
    ELSE LET shorter == SeqsUpTo(S, n - 1)
         IN  shorter \cup {Append(s, v) : s \in shorter, v \in S}

ValueLists == SeqsUpTo(Values, MaxLen)

Range(s) == {s[i] : i \in 1..Len(s)}

(***************************************************************************)
(* Operation and its four subclasses.  An operation is a record            *)
(* [kind, value]; value is Operation._value.                               *)
(***************************************************************************)
Operation(kind, value) == [kind |-> kind, value |-> value]

AddOperation_process(value, input) == input \o value

\* A UniqueAdd that does not look at what the accumulator holds.
UniqueAddOperation_process_blind(value, input) == input \o value

RECURSIVE UniqueAddOperation_process(_, _)
UniqueAddOperation_process(value, input) ==
    IF value = <<>> THEN input
    ELSE UniqueAddOperation_process(
             Tail(value),
             IF Head(value) \in Range(input)
             THEN input
             ELSE Append(input, Head(value)))

\* A Set that keeps what was accumulated before it.
SetOperation_process_keeping(value, input) == input \o value

SetOperation_process(value, input) == value

\* '-{}'.format(v)
RemovedMarker(v) == "-" \o v

\* The loop of RemoveOperation.process: result starts as [] and receives
\* '-v' for every v of the value list that is not in set(input).
RECURSIVE RemoveLoop(_, _, _)
RemoveLoop(value, input_set, res) ==
    IF value = <<>> THEN res
    ELSE RemoveLoop(Tail(value), input_set,
                    IF Head(value) \in input_set
                    THEN res
                    ELSE Append(res, RemovedMarker(Head(value))))

RemoveOperation_process(value, input) == RemoveLoop(value, Range(input), <<>>)

Operation_process(op, input) ==
    CASE op.kind = "Add"       -> AddOperation_process(op.value, input)
      [] op.kind = "UniqueAdd" -> UniqueAddOperation_process(op.value, input)
      [] op.kind = "Set"       -> SetOperation_process(op.value, input)
      [] op.kind = "Remove"    -> RemoveOperation_process(op.value, input)

(***************************************************************************)
(* Scope.get.  Python lists are objects: SetOperation.process returns the  *)
(* operation's own _value list, and UniqueAddOperation.process extends its *)
(* input in place (result = input; result += [v]), so a UniqueAdd that     *)
(* follows a Set extends the list stored in the Set.  A fold state is      *)
(* [ops, res, alias]: the operation list as it is now, the accumulator,    *)
(* and the index of the operation whose _value the accumulator is (0 when  *)
(* the accumulator is a list of its own).                                  *)
(***************************************************************************)
GetStep(st, i) ==
    LET op  == st.ops[i]
        out == Operation_process(op, st.res)
    IN  CASE op.kind = "Set" ->
               [ops |-> st.ops, res |-> out, alias |-> i]
          [] op.kind = "UniqueAdd" ->
               [ops   |-> IF st.alias = 0 THEN st.ops
                          ELSE [st.ops EXCEPT ![st.alias].value = out],
                res   |-> out,
                alias |-> st.alias]
          [] OTHER ->
               [ops |-> st.ops, res |-> out, alias |-> 0]

RECURSIVE GetLoop(_, _)
GetLoop(st, i) ==
    IF i > Len(st.ops) THEN st ELSE GetLoop(GetStep(st, i), i + 1)

\* result = []; for op in self._operations.get(key, []): result = op.process(result)
Scope_get(ops) == GetLoop([ops |-> ops, res |-> <<>>, alias |-> 0], 1)

\* The fold of a list of operations over a given start list, values only.
RECURSIVE Fold(_, _)
Fold(ops, acc) ==
    IF ops = <<>> THEN acc
    ELSE Fold(Tail(ops), Operation_process(Head(ops), acc))

(***************************************************************************)
(* The operation model as a state machine: one scope, assignments append   *)
(* operations to a key (Scope.FromDict), Scope.get resolves the key.       *)
(***************************************************************************)
OpsInit ==
    /\ operations = [k \in Keys |-> <<>>]
    /\ visited_keys = {}
    /\ result = <<>>
    /\ called = ""
    /\ scopes = <<>>
    /\ pc = None
    /\ flat = <<>>
    /\ merged = <<>>
    /\ condition_in = None
    /\ condition_out = None
    /\ returned = <<>>
    /\ ignored_keys = {}
    /\ output = ""
    /\ raised = None

\* Scope.FromDict on an assignment statement: Scope._append_operation.
AppendOperation(key, kind, value) ==
    /\ Len(operations[key]) < MaxOps
    /\ operations' = [operations EXCEPT ![key] = Append(@, Operation(kind, value))]
    /\ called' = ""
    /\ result' = <<>>
    /\ returned' = <<>>
    /\ UNCHANGED <<visited_keys, treeVars, condVars, ignored_keys, output, raised>>

Get(key) ==
    LET st == Scope_get(operations[key])
    IN  /\ called = ""
        /\ visited_keys' = visited_keys \cup {key}
        /\ operations' = [operations EXCEPT ![key] = st.ops]
        /\ result' = st.res
        /\ called' = key
        /\ UNCHANGED <<treeVars, condVars, keyVars>>

\* The outcome of a failed assert.
AssertionError == "<AssertionError>"

Defaults == {"", "app"}

\* Scope.getString that takes the first of several elements
Scope_getString_first(v, default) ==
    IF Len(v) = 0 THEN default ELSE v[1]

\* Scope.getString on the list v that Scope.get returned.
Scope_getString(v, default) ==
    IF Len(v) = 0 THEN default
    ELSE IF Len(v) # 1 THEN AssertionError
    ELSE v[1]

GetString(key, default) ==
    LET st == Scope_get(operations[key])
    IN  /\ called = ""
        /\ visited_keys' = visited_keys \cup {key}
        /\ operations' = [operations EXCEPT ![key] = st.ops]
        /\ result' = st.res
        /\ called' = key
        /\ returned' = <<default, Scope_getString(st.res, default)>>
        /\ UNCHANGED <<treeVars, condVars, ignored_keys, output, raised>>

OpsNext ==
    \/ \E key \in Keys, kind \in OpKinds, value \in ValueLists :
           AppendOperation(key, kind, value)
    \/ \E key \in Keys : Get(key)
    \/ \E key \in Keys, default \in Defaults : GetString(key, default)

SpecOps == OpsInit /\ [][OpsNext]_vars

(***************************************************************************)
(* Claims about the operation model (checked under SpecOps).               *)
(***************************************************************************)
Front(s) == SubSeq(s, 1, Len(s) - 1)

Last(s) == s[Len(s)]

\* A step is a Scope.get(key) call.
IsGet(key) == called = "" /\ called' = key

\* C1: Remove([X]) applied to an accumulator acc that does not contain X
\* yields acc followed by the single string "-X".
C1_RemoveAbsentAppendsMarker ==
    [][\A key \in Keys :
         (/\ IsGet(key)
          /\ operations[key] # <<>>
          /\ Last(operations[key]).kind = "Remove"
          /\ Len(Last(operations[key]).value) = 1
          /\ Last(operations[key]).value[1]
                \notin Range(Fold(Front(operations[key]), <<>>)))
         => result' = Fold(Front(operations[key]), <<>>)
                        \o <<RemovedMarker(Last(operations[key]).value[1])>>]_vars

\* acc without every occurrence of x, the other elements in their order.
RECURSIVE Without(_, _)
Without(acc, x) ==
    IF acc = <<>> THEN <<>>
    ELSE IF Head(acc) = x THEN Without(Tail(acc), x)
         ELSE <<Head(acc)>> \o Without(Tail(acc), x)

\* C2: Remove([X]) applied to an accumulator acc that contains X yields acc
\* with X removed and nothing appended; the other elements keep their order.
C2_RemovePresentDropsOnlyX ==
    [][\A key \in Keys :
         (/\ IsGet(key)
          /\ operations[key] # <<>>
          /\ Last(operations[key]).kind = "Remove"
          /\ Len(Last(operations[key]).value) = 1
          /\ Last(operations[key]).value[1]
                \in Range(Fold(Front(operations[key]), <<>>)))
         => result' = Without(Fold(Front(operations[key]), <<>>),
                              Last(operations[key]).value[1])]_vars

SetPositions(ops) == {i \in 1..Len(ops) : ops[i].kind = "Set"}

LastSet(ops) == CHOOSE i \in SetPositions(ops) : \A j \in SetPositions(ops) : j <= i

\* C3: Scope.get is a left fold of the operation list over the empty list,
\* and when the list holds a Set(L) the result is the fold of the operations
\* after the last Set, started from L: a Set discards what came before it.
C3_SetDiscardsPriorAccumulation ==
    [][\A key \in Keys :
         IsGet(key) =>
           /\ result' = Fold(operations[key], <<>>)
           /\ SetPositions(operations[key]) # {} =>
                LET ops == operations[key]
                    i   == LastSet(ops)
                IN  result' = Fold(SubSeq(ops, i + 1, Len(ops)), ops[i].value)]_vars

\* A get has run on a list whose Set comes after an operation that had put
\* values into the accumulator, and is followed by a further operation.
C3_Witness ==
    /\ called = "CONFIG"
    /\ Len(operations["CONFIG"]) = 2
    /\ operations["CONFIG"][1] = Operation("Add", <<"a">>)
    /\ operations["CONFIG"][2] = Operation("Set", <<"b">>)
    /\ result = <<"b">>

FirstIndex(V, v) ==
    CHOOSE i \in 1..Len(V) : V[i] = v /\ \A j \in 1..(i - 1) : V[j] # v

\* t holds the values of V that are not in acc, each once, in the order of
\* their first occurrence in V.
IsUniqueTail(t, V, acc) ==
    /\ Range(t) = Range(V) \ Range(acc)
    /\ Len(t) = Cardinality(Range(t))
    /\ \A i, j \in 1..Len(t) : i < j => FirstIndex(V, t[i]) < FirstIndex(V, t[j])

ExtendsUniquely(res, V, acc) ==
    /\ Len(res) >= Len(acc)
    /\ SubSeq(res, 1, Len(acc)) = acc
    /\ IsUniqueTail(SubSeq(res, Len(acc) + 1, Len(res)), V, acc)

\* C4: resolving Set(L) then UniqueAdd(V) yields L followed by the values of
\* V that are not in L, each once and in the order of their first occurrence
\* in V; whatever the accumulator, UniqueAdd adds no value it already holds.
C4_UniqueAddAfterSet ==
    [][\A key \in Keys :
         (/\ IsGet(key)
          /\ operations[key] # <<>>
          /\ Last(operations[key]).kind = "UniqueAdd")
         => /\ ExtendsUniquely(result', Last(operations[key]).value,
                               Fold(Front(operations[key]), <<>>))
            /\ (Len(operations[key]) = 2 /\ operations[key][1].kind = "Set")
                 => ExtendsUniquely(result', operations[key][2].value,
                                    operations[key][1].value)]_vars

\* Set(["a"]) then UniqueAdd(["b", "b"]) has been resolved: one "b" was added.
C4_Witness ==
    /\ called = "CONFIG"
    /\ Len(operations["CONFIG"]) = 2
    /\ operations["CONFIG"][1].kind = "Set"
    /\ operations["CONFIG"][2] = Operation("UniqueAdd", <<"b", "b">>)
    /\ result = <<"a", "b">>

(***************************************************************************)
(* Python str operations, on TLA+ strings.                                 *)
(***************************************************************************)
\* s[i-1:]
From(s, i) == SubSeq(s, i, Len(s))

\* s.startswith(p)
StartsWith(s, p) == Len(s) >= Len(p) /\ SubSeq(s, 1, Len(p)) = p

\* sub in s
RECURSIVE Contains(_, _)
Contains(s, sub) ==
    IF Len(s) < Len(sub) THEN FALSE
    ELSE StartsWith(s, sub) \/ Contains(From(s, 2), sub)

\* s.replace(old, new): the occurrences of old, left to right, not overlapping
RECURSIVE Replace(_, _, _)
Replace(s, old, new) ==
    IF Len(s) < Len(old) THEN s
    ELSE IF StartsWith(s, old)
         THEN new \o Replace(From(s, Len(old) + 1), old, new)
         ELSE SubSeq(s, 1, 1) \o Replace(From(s, 2), old, new)

RECURSIVE LStrip(_)
LStrip(s) == IF StartsWith(s, " ") THEN LStrip(From(s, 2)) ELSE s

RECURSIVE RStrip(_)
RStrip(s) ==
    IF Len(s) > 0 /\ SubSeq(s, Len(s), Len(s)) = " "
    THEN RStrip(SubSeq(s, 1, Len(s) - 1))
    ELSE s

\* s.strip()
Strip(s) == RStrip(LStrip(s))

\* The length of the longest prefix of s without a space.
RECURSIVE WordLen(_)
WordLen(s) ==
    IF s = "" \/ StartsWith(s, " ") THEN 0 ELSE 1 + WordLen(From(s, 2))

\* s.split(): the words of s
RECURSIVE Split(_)
Split(s) ==
    LET t == LStrip(s)
    IN  IF t = "" THEN <<>>
        ELSE <<SubSeq(t, 1, WordLen(t))>> \o Split(From(t, WordLen(t) + 1))

(***************************************************************************)
(* map_condition.  Its four re.sub calls drop their results and change     *)
(* nothing.  substitute_platform is helper.py's table of platform names    *)
(* (a name it does not hold is returned as it is), map_qt_base_library     *)
(* its table of module names.  Conditions with qtConfig(...) parts are not *)
(* among the inputs of this model.                                         *)
(***************************************************************************)
platform_mapping ==
    [p \in {"win32", "unix", "linux", "winrt"} |->
        CASE p = "win32" -> "WIN32"
          [] p = "unix"  -> "UNIX"
          [] p = "linux" -> "LINUX"
          [] p = "winrt" -> "WINRT"]

substitute_platform(part) ==
    IF part \in DOMAIN platform_mapping THEN platform_mapping[part] ELSE part

Modules == {"gui"}

map_qt_base_library(module) == IF module = "gui" THEN "Qt::Gui" ELSE module

\* The module of a part that starts with qtHaveModule(module), or None.
HaveModule(part) ==
    IF \E m \in Modules : StartsWith(part, "qtHaveModule(" \o m \o ")")
    THEN CHOOSE m \in Modules : StartsWith(part, "qtHaveModule(" \o m \o ")")
    ELSE None

MapPart(part) ==
    IF HaveModule(part) # None
    THEN "TARGET " \o map_qt_base_library(HaveModule(part))
    ELSE substitute_platform(part)

RECURSIVE MapParts(_)
MapParts(parts) ==
    IF parts = <<>> THEN ""
    ELSE " " \o Replace(Replace(MapPart(Head(parts)),
                                "true", "ON"), "false", "OFF")
             \o MapParts(Tail(parts))

map_condition(condition) ==
    LET c1 == Replace(condition, "*", "_x_")
        c2 == Replace(c1, ".$$", "__ss_")
        c3 == Replace(c2, "$$", "_ss_")
        c4 == Replace(c3, "!", "NOT ")
        c5 == Replace(c4, "&&", " AND ")
        c6 == Replace(c5, "|", " OR ")
    IN  Strip(MapParts(Split(c6)))

\* is_simple_condition
is_simple_condition(condition) ==
    \/ ~Contains(condition, " ")
    \/ StartsWith(condition, "NOT ") /\ ~Contains(From(condition, 5), " ")

(***************************************************************************)
(* sympy Boolean expressions.  An expression is a record [op, name, args]: *)
(* a Symbol ("sym", with its name), true, false, Not, And, Or (args is the *)
(* set of arguments, as And and Or keep a frozenset), or "error" for an    *)
(* expression sympify raises on.                                           *)
(***************************************************************************)
Sym(n) == [op |-> "sym", name |-> n, args |-> {}]

TrueE == [op |-> "true", name |-> "", args |-> {}]

FalseE == [op |-> "false", name |-> "", args |-> {}]

ErrorE == [op |-> "error", name |-> "", args |-> {}]

OnlyArg(e) == CHOOSE a \in e.args : TRUE

\* Not(arg), as Not.eval evaluates it
MkNot(e) ==
    CASE e.op = "error" -> ErrorE
      [] e.op = "true"  -> FalseE
      [] e.op = "false" -> TrueE
      [] e.op = "not"   -> OnlyArg(e)
      [] OTHER          -> [op |-> "not", name |-> "", args |-> {e}]

\* LatticeOp.__new__: nested arguments of the same class are flattened, the
\* identity is dropped, the zero wins, one argument is returned as it is.
Lattice(op, zero, identity, argset) ==
    LET flatargs == UNION {IF a.op = op THEN a.args ELSE {a} : a \in argset}
        rest == flatargs \ {identity}
    IN  IF ErrorE \in flatargs THEN ErrorE
        ELSE IF zero \in flatargs THEN zero
        ELSE IF rest = {} THEN identity
        ELSE IF Cardinality(rest) = 1 THEN CHOOSE a \in rest : TRUE
        ELSE [op |-> op, name |-> "", args |-> rest]

MkAnd(argset) == Lattice("and", FalseE, TrueE, argset)

MkOr(argset) == Lattice("or", TrueE, FalseE, argset)

MkOp(op, argset) == IF op = "and" THEN MkAnd(argset) ELSE MkOr(argset)

\* expr.atoms(Symbol), by name
RECURSIVE Atoms(_)
Atoms(e) ==
    IF e.op = "sym" THEN {e.name} ELSE UNION {Atoms(a) : a \in e.args}

\* The value of e where exactly the symbols of A are true.
RECURSIVE Eval(_, _)
Eval(e, A) ==
    CASE e.op = "sym"   -> e.name \in A
      [] e.op = "true"  -> TRUE
      [] e.op = "false" -> FALSE
      [] e.op = "not"   -> ~Eval(OnlyArg(e), A)
      [] e.op = "and"   -> \A a \in e.args : Eval(a, A)
      [] e.op = "or"    -> \E a \in e.args : Eval(a, A)

\* expr.subs(old, new): every subexpression equal to old becomes new and the
\* expressions around it are built again.
RECURSIVE Subs(_, _, _)
Subs(e, old, new) ==
    IF e = old THEN new
    ELSE CASE e.op = "not" -> MkNot(Subs(OnlyArg(e), old, new))
           [] e.op = "and" -> MkAnd({Subs(a, old, new) : a \in e.args})
           [] e.op = "or"  -> MkOr({Subs(a, old, new) : a \in e.args})
           [] OTHER        -> e

(***************************************************************************)
(* sympify of a condition string (the parser behind simplify_logic(str)):  *)
(* Python's tokens and precedence, ~ over & over |.  The inputs of this    *)
(* model are made of names, spaces, parentheses and the three operators;   *)
(* any other text is a parse error here.                                   *)
(***************************************************************************)
Letters ==
    {"A", "B", "C", "D", "E", "F", "G", "H", "I", "J", "K", "L", "M", "N",
     "O", "P", "Q", "R", "S", "T", "U", "V", "W", "X", "Y", "Z", "_",
     "a", "b", "c", "d", "e", "f", "g", "h", "i", "j", "k", "l", "m", "n",
     "o", "p", "q", "r", "s", "t", "u", "v", "w", "x", "y", "z"}

Digits == {"0", "1", "2", "3", "4", "5", "6", "7", "8", "9"}

\* The characters the strings of this model are made of, in the order of
\* ASCII, which is the order of str.
Alphabet ==
    " !\"#$%&'()*+,-./0123456789:;<=>?@ABCDEFGHIJKLMNOPQRSTUVWXYZ[\\]^_"
        \o "abcdefghijklmnopqrstuvwxyz{|}~"

FirstChar(s) == SubSeq(s, 1, 1)

RECURSIVE NameLen(_)
NameLen(s) ==
    IF s # "" /\ FirstChar(s) \in Letters \cup Digits
    THEN 1 + NameLen(From(s, 2))
    ELSE 0

RECURSIVE Tokenize(_)
Tokenize(s) ==
    IF s = "" THEN <<>>
    ELSE IF FirstChar(s) = " " THEN Tokenize(From(s, 2))
    ELSE IF FirstChar(s) \in {"~", "&", "|", "(", ")"}
         THEN <<FirstChar(s)>> \o Tokenize(From(s, 2))
    ELSE IF FirstChar(s) \in Letters
         THEN <<SubSeq(s, 1, NameLen(s))>> \o Tokenize(From(s, NameLen(s) + 1))
    ELSE <<"?">> \o Tokenize(From(s, 2))

\* The number of parentheses open before token i.
RECURSIVE Depth(_, _)
Depth(toks, i) ==
    IF i <= 1 THEN 0
    ELSE Depth(toks, i - 1)
         + (IF toks[i - 1] = "(" THEN 1 ELSE 0)
         - (IF toks[i - 1] = ")" /\ Depth(toks, i - 1) > 0 THEN 1 ELSE 0)

Balanced(toks) ==
    /\ \A i \in 1..Len(toks) : toks[i] = ")" => Depth(toks, i) > 0
    /\ Depth(toks, Len(toks) + 1) = 0

TopLevel(toks, tok) == {i \in 1..Len(toks) : toks[i] = tok /\ Depth(toks, i) = 0}

\* The pieces of toks between the positions of cuts.
Pieces(toks, cuts) ==
    LET marks == cuts \cup {0, Len(toks) + 1}
    IN  {SubSeq(toks, lo + 1, hi - 1) :
            <<lo, hi>> \in {m \in marks \X marks :
                              /\ m[1] < m[2]
                              /\ \A k \in marks : ~(m[1] < k /\ k < m[2])}}

\* The words of Python that are no names: a text that holds one is a syntax
\* error.
PythonKeywords ==
    {"and", "as", "assert", "break", "class", "continue", "def", "del",
     "elif", "else", "except", "finally", "for", "from", "global", "if",
     "import", "in", "is", "lambda", "nonlocal", "not", "or", "pass", "raise",
     "return", "try", "while", "with", "yield"}

RECURSIVE ParseTokens(_)
ParseTokens(toks) ==
    IF toks = <<>> \/ ~Balanced(toks) THEN ErrorE
    ELSE IF TopLevel(toks, "|") # {}
         THEN MkOr({ParseTokens(p) : p \in Pieces(toks, TopLevel(toks, "|"))})
    ELSE IF TopLevel(toks, "&") # {}
         THEN MkAnd({ParseTokens(p) : p \in Pieces(toks, TopLevel(toks, "&"))})
    ELSE IF toks[1] = "~" THEN MkNot(ParseTokens(Tail(toks)))
    ELSE IF toks[1] = "(" /\ toks[Len(toks)] = ")"
            /\ \A i \in 2..Len(toks) : Depth(toks, i) > 0
         THEN ParseTokens(SubSeq(toks, 2, Len(toks) - 1))
    ELSE IF Len(toks) = 1 /\ FirstChar(toks[1]) \in Letters
         THEN CASE toks[1] = "true"  -> TrueE
                [] toks[1] = "false" -> FalseE
                [] toks[1] \in PythonKeywords -> ErrorE
                [] OTHER             -> Sym(toks[1])
    ELSE ErrorE

sympify(s) == ParseTokens(Tokenize(s))

(***************************************************************************)
(* simplify_logic: the truth table of the expression over its symbols and  *)
(* from it SOPform (when at least half of the table is true) or POSform.   *)
(* An assignment is the set of the symbols that are true.  A term is       *)
(* [pos, neg]: the symbols it wants true and those it wants false.         *)
(***************************************************************************)
RECURSIVE Pow2(_)
Pow2(n) == IF n = 0 THEN 1 ELSE 2 * Pow2(n - 1)

Terms(V) == {[pos |-> p, neg |-> n] : <<p, n>> \in
                {pn \in (SUBSET V) \X (SUBSET V) : pn[1] \cap pn[2] = {}}}

Covers(t, A) == t.pos \subseteq A /\ t.neg \cap A = {}

Implicant(t, M, V) == \A A \in SUBSET V : Covers(t, A) => A \in M

\* What _simplified_pairs reaches at its fixed point: the terms of M that
\* cannot lose a literal.
PrimeImplicants(M, V) ==
    {t \in Terms(V) :
        /\ Implicant(t, M, V)
        /\ \A v \in t.pos : ~Implicant([t EXCEPT !.pos = @ \ {v}], M, V)
        /\ \A v \in t.neg : ~Implicant([t EXCEPT !.neg = @ \ {v}], M, V)}

\* _rem_redundancy: the prime implicants that alone cover some row.  Where
\* these do not cover every row the choice among the others depends on the
\* order of sympy's lists; no input of this model is such a table, and the
\* CASE below has no arm for one.
EssentialTerms(M, V) ==
    LET P == PrimeImplicants(M, V)
        E == {t \in P : \E A \in M :
                  Covers(t, A) /\ \A u \in P \ {t} : ~Covers(u, A)}
    IN  CASE \A A \in M : \E t \in E : Covers(t, A) -> E

SOPform(V, M) ==
    IF M = {} THEN FalseE
    ELSE MkOr({MkAnd({Sym(v) : v \in t.pos} \cup {MkNot(Sym(v)) : v \in t.neg}) :
                 t \in EssentialTerms(M, V)})

POSform(V, M) ==
    IF M = {} THEN FalseE
    ELSE MkAnd({MkOr({MkNot(Sym(v)) : v \in t.pos} \cup {Sym(v) : v \in t.neg}) :
                  t \in EssentialTerms((SUBSET V) \ M, V)})

simplify_logic(e) ==
    IF e.op \in {"sym", "true", "false", "error"} THEN e
    ELSE LET V == Atoms(e)
             M == {A \in SUBSET V : Eval(e, A)}
         IN  IF 2 * Cardinality(M) >= Pow2(Cardinality(V))
             THEN SOPform(V, M)
             ELSE POSform(V, M)

(***************************************************************************)
(* str(expr).  And and Or list their arguments in the order of sympy's     *)
(* ordered(): fewer nodes first, then by sort key (a Symbol before And     *)
(* before Not before Or, Symbols by name, the others by the number of      *)
(* arguments and then argument by argument).                               *)
(***************************************************************************)
\* ord(c), counted from the first character of Alphabet
CharIndexes ==
    [c \in {SubSeq(Alphabet, i, i) : i \in 1..Len(Alphabet)} |->
        CHOOSE i \in 1..Len(Alphabet) : SubSeq(Alphabet, i, i) = c]

CharIndex(c) == CharIndexes[c]

\* a < b for Python str
RECURSIVE StrLess(_, _)
StrLess(a, b) ==
    IF b = "" THEN FALSE
    ELSE IF a = "" THEN TRUE
    ELSE IF FirstChar(a) = FirstChar(b) THEN StrLess(From(a, 2), From(b, 2))
    ELSE CharIndex(FirstChar(a)) < CharIndex(FirstChar(b))

RECURSIVE SumOver(_, _)
SumOver(S, f) ==
    IF S = {} THEN 0
    ELSE LET x == CHOOSE y \in S : TRUE IN f[x] + SumOver(S \ {x}, f)

\* expr.count(Basic)
RECURSIVE Nodes(_)
Nodes(e) == 1 + SumOver(e.args, [a \in e.args |-> Nodes(a)])

ClassRank(e) ==
    CASE e.op = "sym" -> 1
      [] e.op = "and" -> 2
      [] e.op = "not" -> 3
      [] e.op = "or"  -> 4
      [] OTHER        -> 0

RECURSIVE KeyLess(_, _)
RECURSIVE OrderedLess(_, _)
RECURSIVE SortArgs(_)
RECURSIVE SeqKeyLess(_, _)

\* a.sort_key() < b.sort_key()
KeyLess(a, b) ==
    IF ClassRank(a) # ClassRank(b) THEN ClassRank(a) < ClassRank(b)
    ELSE IF a.op = "sym" THEN StrLess(a.name, b.name)
    ELSE IF Cardinality(a.args) # Cardinality(b.args)
         THEN Cardinality(a.args) < Cardinality(b.args)
    ELSE SeqKeyLess(SortArgs(a.args), SortArgs(b.args))

SeqKeyLess(s, t) ==
    IF s = <<>> \/ t = <<>> THEN FALSE
    ELSE IF Head(s) = Head(t) THEN SeqKeyLess(Tail(s), Tail(t))
    ELSE KeyLess(Head(s), Head(t))

OrderedLess(a, b) ==
    IF Nodes(a) # Nodes(b) THEN Nodes(a) < Nodes(b) ELSE KeyLess(a, b)

\* tuple(ordered(argset))
SortArgs(S) ==
    IF S = {} THEN <<>>
    ELSE LET first == CHOOSE x \in S : \A y \in S \ {x} : OrderedLess(x, y)
         IN  <<first>> \o SortArgs(S \ {first})

RECURSIVE Join(_, _)
Join(strs, sep) ==
    IF strs = <<>> THEN ""
    ELSE IF Len(strs) = 1 THEN strs[1]
    ELSE strs[1] \o sep \o Join(Tail(strs), sep)

RECURSIVE Str(_)
Parenthesized(e, inside) ==
    IF e.op \in inside THEN "(" \o Str(e) \o ")" ELSE Str(e)

Str(e) ==
    CASE e.op = "sym"   -> e.name
      [] e.op = "true"  -> "True"
      [] e.op = "false" -> "False"
      [] e.op = "not"   -> "~" \o Parenthesized(OnlyArg(e), {"and", "or"})
      [] e.op = "and"   ->
           LET a == SortArgs(e.args)
           IN  Join([i \in 1..Len(a) |-> Parenthesized(a[i], {"or"})], " & ")
      [] e.op = "or"    ->
           LET a == SortArgs(e.args)
           IN  Join([i \in 1..Len(a) |-> Parenthesized(a[i], {"and"})], " | ")

(***************************************************************************)
(* The domain rules of _recursive_simplify.                                *)
(***************************************************************************)
\* _simplify_expressions with _iterate_expr_tree: the arguments are handled
\* first; then, if the expression is an op and holds every one of matches,
\* it becomes op(replacement, the arguments that are not matches).  (The
\* code substitutes the handled arguments one at a time; no handled argument
\* equals another argument that the rule changes, so the result is that of
\* handling them together.)
RECURSIVE _simplify_expressions(_, _, _, _)
_simplify_expressions(expr, op, matches, replacement) ==
    LET inner ==
            CASE expr.op = "not" ->
                   MkNot(_simplify_expressions(OnlyArg(expr), op, matches, replacement))
              [] expr.op \in {"and", "or"} ->
                   MkOp(expr.op, {_simplify_expressions(a, op, matches, replacement) :
                                     a \in expr.args})
              [] OTHER -> expr
    IN  IF inner.op = op /\ matches \subseteq inner.args
        THEN MkOp(op, {replacement} \cup (inner.args \ matches))
        ELSE inner

\* A step of _recursive_simplify is a rule: expr.subs(old, new), or a call
\* of _simplify_expressions(expr, op, matches, replacement).
SubsRule(old, new) ==
    [kind |-> "subs", op |-> "", matches |-> {old}, replacement |-> new]

MatchRule(op, matches, replacement) ==
    [kind |-> "match", op |-> op, matches |-> matches, replacement |-> replacement]

ApplyRule(rule, expr) ==
    IF rule.kind = "subs"
    THEN Subs(expr, CHOOSE old \in rule.matches : TRUE, rule.replacement)
    ELSE _simplify_expressions(expr, rule.op, rule.matches, rule.replacement)

\* One round of the loop of _simplify_flavors_in_condition with its third
\* call only.
FlavorRules_negation_only(base, flavor) ==
    <<MatchRule("and", {MkNot(Sym(base)), Sym(flavor)}, FalseE)>>

\* The three calls of one round of the loop of _simplify_flavors_in_condition.
FlavorRules(base, flavor) ==
    <<MatchRule("and", {Sym(base), Sym(flavor)}, Sym(flavor)),
      MatchRule("or", {Sym(base), Sym(flavor)}, Sym(base)),
      MatchRule("and", {MkNot(Sym(base)), Sym(flavor)}, FalseE)>>

RECURSIVE _simplify_flavors_in_condition(_, _)
_simplify_flavors_in_condition(base, flavors) ==
    IF flavors = <<>> THEN <<>>
    ELSE FlavorRules(base, Head(flavors))
         \o _simplify_flavors_in_condition(base, Tail(flavors))

apples == <<"APPLE_OSX", "APPLE_UIKIT", "APPLE_IOS", "APPLE_TVOS", "APPLE_WATCHOS">>

bsds == <<"APPLE", "FREEBSD", "OPENBSD", "NETBSD">>

unixes == <<"APPLE">> \o apples \o <<"BSD">> \o bsds
          \o <<"LINUX", "ANDROID", "ANDROID_EMBEDDED", "INTEGRITY", "VXWORKS",
               "QNX", "WASM">>

\* for unix_flavor in unixes: unix_flavor AND WIN32 -> false
WinFlavorRules ==
    [i \in 1..Len(unixes) |->
        MatchRule("and", {Sym("WIN32"), Sym(unixes[i])}, FalseE)]

\* The statements of _recursive_simplify without the two subs calls.
SimplifyRules_without_complement ==
    <<MatchRule("or", {Sym("UNIX"), Sym("WIN32")}, TrueE),
      MatchRule("and", {Sym("UNIX"), Sym("WIN32")}, FalseE)>>
    \o WinFlavorRules
    \o _simplify_flavors_in_condition("WIN32", <<"WINRT">>)
    \o _simplify_flavors_in_condition("APPLE", apples)
    \o _simplify_flavors_in_condition("BSD", bsds)
    \o _simplify_flavors_in_condition("UNIX", unixes)

\* The statements of _recursive_simplify before its last simplify_logic, in
\* the order the code runs them.
SimplifyRules ==
    <<SubsRule(MkNot(Sym("UNIX")), Sym("WIN32")),      \* NOT UNIX -> WIN32
      SubsRule(MkNot(Sym("WIN32")), Sym("UNIX")),      \* NOT WIN32 -> UNIX
      MatchRule("or", {Sym("UNIX"), Sym("WIN32")}, TrueE),
      MatchRule("and", {Sym("UNIX"), Sym("WIN32")}, FalseE)>>
    \o WinFlavorRules
    \o _simplify_flavors_in_condition("WIN32", <<"WINRT">>)
    \o _simplify_flavors_in_condition("APPLE", apples)
    \o _simplify_flavors_in_condition("BSD", bsds)
    \o _simplify_flavors_in_condition("UNIX", unixes)

RECURSIVE ApplyRules(_, _, _)
ApplyRules(rules, i, expr) ==
    IF i > Len(rules) \/ expr.op = "error" THEN expr
    ELSE ApplyRules(rules, i + 1, ApplyRule(rules[i], expr))

\* The body of _recursive_simplify up to its loop: one pass of the rules.
SimplifyPass(expr) == simplify_logic(ApplyRules(SimplifyRules, 1, expr))

\* _recursive_simplify without its loop.
_recursive_simplify_once(expr) == SimplifyPass(expr)

\* _recursive_simplify: the pass is repeated until it changes nothing.
RECURSIVE _recursive_simplify(_)
_recursive_simplify(expr) ==
    LET next == SimplifyPass(expr)
    IN  IF next = expr THEN next ELSE _recursive_simplify(next)

(***************************************************************************)
(* simplify_condition.                                                     *)
(***************************************************************************)
\* One round of the loop that maps the condition to sympy's syntax.
ToSympyOnce(c) ==
    Replace(Replace(Replace(Replace(Replace(c,
        " NOT ", " ~ "), " AND ", " & "), " OR ", " | "), " ON ", "true"),
        " OFF ", "false")

RECURSIVE ToSympy(_)
ToSympy(c) == IF ToSympyOnce(c) = c THEN c ELSE ToSympy(ToSympyOnce(c))

\* Map back to CMake syntax.
ToCMake(s) ==
    Replace(Replace(Replace(Replace(Replace(s,
        "~", "NOT "), "&", "AND"), "|", "OR"), "True", "ON"), "False", "OFF")

\* simplify_condition that leaves a condition sympy rejects as it was given
simplify_condition_unstripped(condition) ==
    LET input_condition == Strip(condition)
        padded == Replace(Replace(" " \o input_condition \o " ",
                                  "(", " ( "), ")", " ) ")
        condition_expr == simplify_logic(sympify(ToSympy(padded)))
        simplified ==
            IF condition_expr = ErrorE
            THEN condition
            ELSE ToCMake(Str(_recursive_simplify(condition_expr)))
    IN  IF simplified = "" THEN "ON" ELSE simplified

simplify_condition(condition) ==
    LET input_condition == Strip(condition)
        padded == Replace(Replace(" " \o input_condition \o " ",
                                  "(", " ( "), ")", " ) ")
        condition_expr == simplify_logic(sympify(ToSympy(padded)))
        simplified ==
            IF condition_expr = ErrorE
            THEN input_condition      \* except: leave this condition alone
            ELSE ToCMake(Str(_recursive_simplify(condition_expr)))
    IN  IF simplified = "" THEN "ON" ELSE simplified

(***************************************************************************)
(* simplify_condition as a state machine: a call with an argument drawn    *)
(* from CondInputs.  The platform hierarchy is the one _recursive_simplify *)
(* passes to _simplify_flavors_in_condition.                               *)
(***************************************************************************)
Pairs(base, flavors) == {<<base, flavors[i]>> : i \in 1..Len(flavors)}

\* The (root, flavor) pairs of the four _simplify_flavors_in_condition calls.
Hierarchy ==
    Pairs("WIN32", <<"WINRT">>) \cup Pairs("APPLE", apples)
    \cup Pairs("BSD", bsds) \cup Pairs("UNIX", unixes)

NotRootAndFlavor(pair) == "NOT " \o pair[1] \o " AND " \o pair[2]

RootAndFlavor(pair) == pair[1] \o " AND " \o pair[2]

RootOrFlavor(pair) == pair[1] \o " OR " \o pair[2]

MaxTerms == 2       \* literals joined in a generated condition

CondAtoms == {"WIN32", "UNIX", "LINUX", "WINRT", "x"}

Literals == CondAtoms \cup {"NOT " \o a : a \in CondAtoms}

\* c as an operand: in parentheses unless it is a literal.
Operand(c) == IF is_simple_condition(c) THEN c ELSE "(" \o c \o ")"

\* The conditions that join up to n literals with AND, OR and NOT.
RECURSIVE GeneratedConditions(_)
GeneratedConditions(n) ==
    IF n <= 1 THEN Literals
    ELSE LET shorter == GeneratedConditions(n - 1)
         IN  shorter
             \cup {Operand(c) \o " AND " \o l : c \in shorter, l \in Literals}
             \cup {Operand(c) \o " OR " \o l : c \in shorter, l \in Literals}
             \cup {"NOT " \o Operand(c) : c \in shorter \ Literals}

\* Conditions sympy does not parse.
UnparsedConditions == {"TARGET Qt::Core", "a b", "(a", "a AND", " a b "}

CondInputs ==
    GeneratedConditions(MaxTerms)
    \cup UnparsedConditions
    \cup {"(WIN32 OR WINRT) AND UNIX", " WIN32 ", "  "}
    \cup {NotRootAndFlavor(pair) : pair \in Hierarchy}
    \cup {RootAndFlavor(pair) : pair \in Hierarchy}
    \cup {RootOrFlavor(pair) : pair \in Hierarchy}
    \cup {"", "ON", "OFF", "WIN32", "NOT WIN32", "NOT UNIX", "UNIX AND WIN32",
          "UNIX OR WIN32", "NOT a OR b", "NOT (a OR b)", "a AND (b OR NOT a)",
          "TARGET Qt::Core"}

CondInit ==
    /\ condition_in \in CondInputs
    /\ condition_out = None
    /\ operations = [k \in Keys |-> <<>>]
    /\ visited_keys = {}
    /\ result = <<>>
    /\ called = ""
    /\ scopes = <<>>
    /\ pc = None
    /\ flat = <<>>
    /\ merged = <<>>
    /\ returned = <<>>
    /\ ignored_keys = {}
    /\ output = ""
    /\ raised = None

\* A call simplify_condition(condition_in).
SimplifyCondition ==
    /\ condition_out = None
    /\ condition_out' = simplify_condition(condition_in)
    /\ UNCHANGED <<condition_in, opsVars, treeVars, keyVars>>

\* A call simplify_condition(s) with the result s of the call before.
SimplifyAgain ==
    /\ condition_out # None
    /\ condition_in' = condition_out
    /\ condition_out' = simplify_condition(condition_out)
    /\ UNCHANGED <<opsVars, treeVars, keyVars>>

CondNext ==
    \/ SimplifyCondition
    \/ SimplifyAgain

SpecCond == CondInit /\ [][CondNext]_vars

(***************************************************************************)
(* Claims about simplify_condition (checked under SpecCond).               *)
(***************************************************************************)
\* C10: for every root platform and every flavor of it in the hierarchy of
\* _recursive_simplify, simplify_condition("NOT <root> AND <flavor>") is "OFF".
C10_NotRootAndFlavorIsOff ==
    \A pair \in Hierarchy :
        (condition_in = NotRootAndFlavor(pair) /\ condition_out # None)
            => condition_out = "OFF"

\* C11: for every (root, flavor) pair of the hierarchy,
\* simplify_condition("<root> AND <flavor>") is the flavor and
\* simplify_condition("<root> OR <flavor>") is the root.
C11_RootAndOrFlavor ==
    condition_out # None =>
        \A pair \in Hierarchy :
            /\ condition_in = RootAndFlavor(pair) => condition_out = pair[2]
            /\ condition_in = RootOrFlavor(pair) => condition_out = pair[1]

C11_Witness ==
    \/ condition_in = "APPLE AND APPLE_IOS" /\ condition_out = "APPLE_IOS"
    \/ condition_in = "APPLE OR APPLE_IOS" /\ condition_out = "APPLE"

(***************************************************************************)
(* The scope tree.  A Scope object is a record, named by its position in   *)
(* scopes (the root of the converted file is scope 1); parent is 0 for     *)
(* None.  operations maps a key to its list of operations, the empty list  *)
(* for a key the dict does not hold (the dict never holds an empty list).  *)
(* Python lists are objects: list_id names, for each key, the list object  *)
(* the scope holds, so that two scopes that hold one list see each         *)
(* other's changes.  else_of is not a field of Scope: it records, for the  *)
(* scope of an else branch, the scope of the branch it belongs to (0       *)
(* otherwise).                                                             *)
(***************************************************************************)
MaxScopes == 3          \* scopes Scope.FromDict makes for the converted file
MaxAssignments == 2     \* assignment statements in the converted file
MaxIncludes == 2        \* include statements in the converted file

\* The conditions of the blocks of the .pro files, as the parser hands them over.
RawConditions ==
    {"win32", "!win32", "linux", "win32|linux", "true", "false",
     "qtHaveModule(gui)", "else"}

\* The file the n-th assignment of the converted file adds to SOURCES.
Sources == <<"w.cpp", "u.cpp", "x.cpp">>

ScopeKeys == {"SOURCES", "_INCLUDED"}

\* The paths of the include statements, and the .pri files that exist, each
\* with the files its top level adds to SOURCES and the conditions of its
\* blocks.
IncludePaths == {"p", "q"}

ProFiles ==
    [path \in {"p"} |-> [sources |-> <<"i.cpp">>, blocks |-> <<"linux">>]]

\* map_to_file for a path without one of its prefixes ($$PWD/, $$OUT_PWD/,
\* $$QT_SOURCE_TREE, ./), which are not among the inputs of this model.
map_to_file(f) == f

\* Scope.__init__ without the parent's _add_child.
Scope(id, parent_scope, condition, else_of) ==
    [parent          |-> parent_scope,
     condition       |-> map_condition(condition),
     children        |-> <<>>,
     operations      |-> [k \in ScopeKeys |-> <<>>],
     list_id         |-> [k \in ScopeKeys |-> id],
     total_condition |-> None,
     else_of         |-> else_of]

\* Scope._add_child
_add_child(scs, self, scope) ==
    [scs EXCEPT ![scope].parent = self, ![self].children = Append(@, scope)]

\* Scope._append_operation: the list of the key is extended in place.
_append_operation(scs, self, key, op) ==
    [scs EXCEPT ![self].operations[key] = Append(@, op)]

\* self._operations[key] += other._operations[key], wrongly at the front
ExtendedList_in_front(own, extra) == extra \o own

\* self._operations[key] += other._operations[key]
ExtendedList(own, extra) == own \o extra

\* Scope.merge.  The children of other become children of self (and stay in
\* other's list).  For a key of other that self holds, self's list object is
\* extended in place; for one it does not hold, self takes other's list
\* object.
Scope_merge(scs, self, other) ==
    LET kids == scs[other].children
        adopted ==
            [i \in DOMAIN scs |->
                LET moved == IF i \in Range(kids)
                             THEN [scs[i] EXCEPT !.parent = self]
                             ELSE scs[i]
                IN  IF i = self THEN [moved EXCEPT !.children = @ \o kids]
                    ELSE moved]
        extra(k) == scs[other].operations[k]
        held(k) == scs[self].operations[k] # <<>>
        ops(i, k) ==
            IF extra(k) = <<>> THEN scs[i].operations[k]
            ELSE IF held(k)
                 THEN IF /\ scs[i].operations[k] # <<>>
                         /\ scs[i].list_id[k] = scs[self].list_id[k]
                      THEN ExtendedList(scs[i].operations[k], extra(k))
                      ELSE scs[i].operations[k]
                 ELSE IF i = self THEN extra(k) ELSE scs[i].operations[k]
        lid(i, k) ==
            IF extra(k) # <<>> /\ ~held(k) /\ i = self
            THEN scs[other].list_id[k]
            ELSE scs[i].list_id[k]
    IN  [i \in DOMAIN scs |->
            [adopted[i] EXCEPT !.operations = [k \in ScopeKeys |-> ops(i, k)],
                               !.list_id = [k \in ScopeKeys |-> lid(i, k)]]]

\* Scope._INCLUDED: get('_INCLUDED', [])
Scope_INCLUDED(scs, self) == Scope_get(scs[self].operations["_INCLUDED"]).res

\* Scope.FromDict(None, include_file, statements, '', dir) for a .pri file of
\* ProFiles: the scope of the file, then the scopes of its blocks.
RECURSIVE FromDictBlocks(_, _, _, _)
FromDictBlocks(scs, self, blocks, i) ==
    IF i > Len(blocks) THEN scs
    ELSE LET id == Len(scs) + 1
         IN  FromDictBlocks(
                 _add_child(Append(scs, Scope(id, self, blocks[i], 0)), self, id),
                 self, blocks, i + 1)

RECURSIVE FromDictSources(_, _, _, _)
FromDictSources(scs, self, sources, i) ==
    IF i > Len(sources) THEN scs
    ELSE FromDictSources(
             _append_operation(scs, self, "SOURCES",
                               Operation("Add", <<map_to_file(sources[i])>>)),
             self, sources, i + 1)

FromDictFile(scs, path) ==
    LET id == Len(scs) + 1
        file == ProFiles[path]
    IN  FromDictBlocks(
            FromDictSources(Append(scs, Scope(id, 0, "", 0)), id, file.sources, 1),
            id, file.blocks, 1)

\* do_include: the children first, then the scope's own include files; a
\* file that does not exist is skipped.  The files of ProFiles hold no
\* include statement, so do_include(include_scope) changes nothing.
RECURSIVE do_include(_, _)
RECURSIVE IncludeChildren(_, _, _)
RECURSIVE IncludeFiles(_, _, _, _)
do_include(scs, self) ==
    LET done == IncludeChildren(scs, scs[self].children, 1)
    IN  IncludeFiles(done, self, Scope_INCLUDED(done, self), 1)

IncludeChildren(scs, kids, i) ==
    IF i > Len(kids) THEN scs
    ELSE IncludeChildren(do_include(scs, kids[i]), kids, i + 1)

\* The loop of do_include leaving at the first file that does not exist.
IncludeFiles_stopping(scs, self, files, i) ==
    IF i > Len(files) THEN scs
    ELSE IF files[i] = "" \/ files[i] \notin DOMAIN ProFiles
         THEN scs
         ELSE IncludeFiles(
                  Scope_merge(FromDictFile(scs, files[i]), self, Len(scs) + 1),
                  self, files, i + 1)

IncludeFiles(scs, self, files, i) ==
    IF i > Len(files) THEN scs
    ELSE IF files[i] = "" \/ files[i] \notin DOMAIN ProFiles
         THEN IncludeFiles(scs, self, files, i + 1)
         ELSE IncludeFiles(
                  Scope_merge(FromDictFile(scs, files[i]), self, Len(scs) + 1),
                  self, files, i + 1)

\* recursive_evaluate_scope: the text of the scope's own condition (for the
\* condition else without a previous condition the assert fails) ...
OwnCondition(current_condition, previous_condition) ==
    IF current_condition = "else"
    THEN IF previous_condition = "" THEN AssertionError
         ELSE IF StartsWith(previous_condition, "NOT ")
         THEN From(previous_condition, 5)
         ELSE IF is_simple_condition(previous_condition)
              THEN "NOT " \o previous_condition
              ELSE "NOT (" \o previous_condition \o ")"
    ELSE current_condition

\* ... joined with the text it was given for the parent ...
JoinedCondition(parent_condition, total_condition) ==
    IF parent_condition = "" THEN total_condition
    ELSE IF total_condition = "" THEN parent_condition
    ELSE IF /\ is_simple_condition(parent_condition)
            /\ is_simple_condition(total_condition)
         THEN parent_condition \o " AND " \o total_condition
    ELSE IF is_simple_condition(total_condition)
         THEN "(" \o parent_condition \o ") AND " \o total_condition
    ELSE IF is_simple_condition(parent_condition)
         THEN parent_condition \o " AND (" \o total_condition \o ")"
    ELSE "(" \o parent_condition \o ") AND (" \o total_condition \o ")"

\* The own conditions of the scopes of this model and the texts they are
\* joined into down to a depth, with what simplify_condition makes of each:
\* the calls of simplify_condition on these texts, made once.
OwnConditions ==
    {map_condition(c) : c \in RawConditions}
    \cup {map_condition("NOT " \o c) : c \in RawConditions}
    \cup UNION {{map_condition(ProFiles[f].blocks[i]) :
                    i \in 1..Len(ProFiles[f].blocks)} : f \in DOMAIN ProFiles}

RECURSIVE JoinedTexts(_)
JoinedTexts(depth) ==
    IF depth = 0 THEN {""}
    ELSE LET above == JoinedTexts(depth - 1)
         IN  above \cup {JoinedCondition(p, c) : p \in above, c \in OwnConditions}

SimplifiedTexts ==
    LET else_texts == {OwnCondition("else", p) : p \in OwnConditions}
        blocks == UNION {{map_condition(ProFiles[f].blocks[i]) :
                             i \in 1..Len(ProFiles[f].blocks)} :
                         f \in DOMAIN ProFiles}
        texts == JoinedTexts(2) \cup else_texts
                     \cup {JoinedCondition(p, c) : p \in else_texts, c \in blocks}
    IN  {<<t, simplify_condition(t)>> : t \in texts}

Simplified(text) ==
    IF \E e \in SimplifiedTexts : e[1] = text
    THEN (CHOOSE e \in SimplifiedTexts : e[1] = text)[2]
    ELSE simplify_condition(text)

\* ... simplified into total_condition; the children are given the text
\* before its simplification.
RECURSIVE recursive_evaluate_scope(_, _, _, _)
RECURSIVE EvaluateChildren(_, _, _, _, _)
\* recursive_evaluate_scope handing the children the simplified condition
recursive_evaluate_scope_simplified(scs, scope, parent_condition, previous_condition) ==
    LET own_condition == OwnCondition(scs[scope].condition, previous_condition)
        total_condition == JoinedCondition(parent_condition, own_condition)
        own == [scs EXCEPT ![scope].total_condition =
                               Simplified(total_condition)]
    IN  IF own_condition = AssertionError
        THEN [scs |-> scs, raised |-> AssertionError]
        ELSE EvaluateChildren(own, scs[scope].children, 1,
                              Simplified(total_condition), "")

\* recursive_evaluate_scope: the scopes with the total conditions stored and
\* the error raised, None when the call returned.
recursive_evaluate_scope(scs, scope, parent_condition, previous_condition) ==
    LET own_condition == OwnCondition(scs[scope].condition, previous_condition)
        total_condition == JoinedCondition(parent_condition, own_condition)
        own == [scs EXCEPT ![scope].total_condition =
                               Simplified(total_condition)]
    IN  IF own_condition = AssertionError
        THEN [scs |-> scs, raised |-> AssertionError]
        ELSE EvaluateChildren(own, scs[scope].children, 1, total_condition, "")

EvaluateChildren(scs, kids, i, total_condition, prev_condition) ==
    IF i > Len(kids) THEN [scs |-> scs, raised |-> None]
    ELSE LET done == recursive_evaluate_scope(scs, kids[i], total_condition,
                                              prev_condition)
         IN  IF done.raised # None THEN done
             ELSE EvaluateChildren(done.scs, kids, i + 1, total_condition,
                                   scs[kids[i]].condition)

\* flatten_scopes
RECURSIVE flatten_scopes(_, _)
RECURSIVE FlattenChildren(_, _, _)
\* flatten_scopes with the scope after its children
flatten_scopes_children_first(scs, scope) ==
    FlattenChildren(scs, scs[scope].children, 1) \o <<scope>>

flatten_scopes(scs, scope) ==
    <<scope>> \o FlattenChildren(scs, scs[scope].children, 1)

FlattenChildren(scs, kids, i) ==
    IF i > Len(kids) THEN <<>>
    ELSE flatten_scopes(scs, kids[i]) \o FlattenChildren(scs, kids, i + 1)

\* The body of the loop of merge_scopes without its test for OFF.
MergeStep_keeping_off(st, scope) ==
    LET total_condition == st.scs[scope].total_condition
    IN  IF total_condition \in DOMAIN st.known_scopes
        THEN [st EXCEPT !.scs = Scope_merge(@, st.known_scopes[total_condition],
                                            scope)]
        ELSE [st EXCEPT !.result = Append(@, scope),
                        !.known_scopes = @ @@ (total_condition :> scope)]

\* The body of the loop of merge_scopes, on [scs, result, known_scopes].
MergeStep(st, scope) ==
    LET total_condition == st.scs[scope].total_condition
    IN  IF total_condition = "OFF" THEN st
        ELSE IF total_condition \in DOMAIN st.known_scopes
        THEN [st EXCEPT !.scs = Scope_merge(@, st.known_scopes[total_condition],
                                            scope)]
        ELSE [st EXCEPT !.result = Append(@, scope),
                        !.known_scopes = @ @@ (total_condition :> scope)]

RECURSIVE MergeLoop(_, _, _)
MergeLoop(st, list, i) ==
    IF i > Len(list) THEN st
    ELSE MergeLoop(MergeStep(st, list[i]), list, i + 1)

\* merge_scopes
merge_scopes(scs, list) ==
    MergeLoop([scs |-> scs, result |-> <<>>, known_scopes |-> <<>>], list, 1)

(***************************************************************************)
(* The text written to the CMakeLists.txt file (cm_fh).  The operations of *)
(* a scope are a function from keys to operation lists; an operator that   *)
(* calls Scope.get gives the operations after the calls where a call can   *)
(* change them.                                                            *)
(***************************************************************************)
\* The converted file (Scope.file of its scope); its directory is the base
\* directory of the run.
File == "t.pro"

\* The paths for which os.path.exists is true, relative to the base
\* directory.
Files == {"util.cpp"}

\* spaces(indent)
RECURSIVE spaces(_)
spaces(indent) == IF indent = 0 THEN "" ELSE "    " \o spaces(indent - 1)

\* Scope.keys
Scope_keys(ops) == {k \in DOMAIN ops : ops[k] # <<>>}

\* Scope.get(key) on the operations ops: [] for a key without operations.
KeyGet(ops, key) ==
    IF key \in DOMAIN ops THEN Scope_get(ops[key]).res ELSE <<>>

\* The operations after Scope.get was called for the keys.
RECURSIVE Resolved(_, _)
Resolved(ops, keys) ==
    IF keys = <<>> THEN ops
    ELSE Resolved(IF Head(keys) \in DOMAIN ops
                  THEN [ops EXCEPT ![Head(keys)] = Scope_get(@).ops]
                  ELSE ops,
                  Tail(keys))

\* Scope.getString(key, default)
KeyGetString(ops, key, default) == Scope_getString(KeyGet(ops, key), default)

\* s.endswith(p)
EndsWith(s, p) ==
    Len(s) >= Len(p) /\ SubSeq(s, Len(s) - Len(p) + 1, Len(s)) = p

\* s.rfind(c) + 1 for a character c: the place of its last occurrence, 0
\* when there is none.
RECURSIVE RFind(_, _)
RFind(s, c) ==
    IF s = "" THEN 0
    ELSE IF SubSeq(s, Len(s), Len(s)) = c THEN Len(s)
    ELSE RFind(SubSeq(s, 1, Len(s) - 1), c)

\* s.rstrip('/')
RECURSIVE RStripSlash(_)
RStripSlash(s) ==
    IF EndsWith(s, "/") THEN RStripSlash(SubSeq(s, 1, Len(s) - 1)) ELSE s

\* os.path.dirname
dirname(p) ==
    LET head == SubSeq(p, 1, RFind(p, "/"))
    IN  IF RStripSlash(head) # "" THEN RStripSlash(head) ELSE head

\* os.path.basename
basename(p) == From(p, RFind(p, "/") + 1)

\* os.path.splitext(p)[0]: the extension starts at the last dot of the last
\* component, unless only dots stand before it in the component.
splitext(p) ==
    LET sep == RFind(p, "/")
        dot == RFind(p, ".")
    IN  IF dot > sep /\ \E i \in (sep + 1)..(dot - 1) : SubSeq(p, i, i) # "."
        THEN SubSeq(p, 1, dot - 1)
        ELSE p

\* os.path.join(a, b)
path_join(a, b) ==
    IF StartsWith(b, "/") THEN b
    ELSE IF a = "" \/ EndsWith(a, "/") THEN a \o b
    ELSE a \o "/" \o b

\* sorted(strs) for a list of str
RECURSIVE Insert(_, _)
Insert(sorted_strs, s) ==
    IF sorted_strs = <<>> THEN <<s>>
    ELSE IF StrLess(s, Head(sorted_strs)) THEN <<s>> \o sorted_strs
    ELSE <<Head(sorted_strs)>> \o Insert(Tail(sorted_strs), s)

RECURSIVE sorted(_)
sorted(strs) ==
    IF strs = <<>> THEN <<>>
    ELSE Insert(sorted(SubSeq(strs, 1, Len(strs) - 1)), strs[Len(strs)])

\* sorted(S) for a set of str
RECURSIVE SortedSet(_)
SortedSet(S) ==
    IF S = {} THEN <<>>
    ELSE LET first == CHOOSE x \in S : \A y \in S \ {x} : StrLess(x, y)
         IN  <<first>> \o SortedSet(S \ {first})

\* map_source_to_cmake; the vpath loop
RECURSIVE VPathLookup(_, _)
VPathLookup(source, vpath) ==
    IF vpath = <<>> THEN source \o "-NOTFOUND"
    ELSE IF path_join(Head(vpath), source) \in Files
         THEN path_join(Head(vpath), source)
    ELSE VPathLookup(source, Tail(vpath))

map_source_to_cmake(source, vpath) ==
    IF source = "" \/ source = "$$NO_PCH_SOURCES" THEN ""
    ELSE IF StartsWith(source, "$$PWD/") THEN From(source, 7)
    ELSE IF source = "." THEN "${CMAKE_CURRENT_SOURCE_DIR}"
    ELSE IF StartsWith(source, "$$QT_SOURCE_TREE/")
         THEN "${PROJECT_SOURCE_DIR}/" \o From(source, 18)
    ELSE IF source \in Files THEN source
    ELSE VPathLookup(source, vpath)

\* sort_sources: the name a source is sorted by ...
SortName(s) ==
    LET base == splitext(basename(s))
    IN  path_join(dirname(s),
                  IF EndsWith(base, "_p") THEN SubSeq(base, 1, Len(base) - 2)
                  ELSE base)

\* ... the sources of a name, in their order ...
RECURSIVE SourcesOf(_, _)
SourcesOf(sources, name) ==
    IF sources = <<>> THEN <<>>
    ELSE (IF SortName(Head(sources)) = name THEN <<Head(sources)>> ELSE <<>>)
             \o SourcesOf(Tail(sources), name)

\* ... and a line for each name.
sort_sources(sources) ==
    LET names == SortedSet({SortName(sources[i]) : i \in 1..Len(sources)})
    IN  [n \in 1..Len(names) |-> Join(sorted(SourcesOf(sources, names[n])), " ")]

\* One line of cm_fh for each element, after the prefix.
RECURSIVE Lines(_, _)
Lines(prefix, strs) ==
    IF strs = <<>> THEN ""
    ELSE prefix \o Head(strs) \o "\n" \o Lines(prefix, Tail(strs))

\* helper.map_qt_library: the name of the module, with Private after it for
\* a module named with -private.
map_qt_library(lib) ==
    IF EndsWith(lib, "-private")
    THEN map_qt_base_library(SubSeq(lib, 1, Len(lib) - 8)) \o "Private"
    ELSE map_qt_base_library(lib)

\* helper.substitute_libs: its table holds none of the names of this model;
\* /nolink at the end of a name becomes _nolink.
substitute_libs(lib) ==
    IF EndsWith(lib, "/nolink")
    THEN SubSeq(lib, 1, Len(lib) - 7) \o "_nolink"
    ELSE lib

\* write_sources_section: the libraries of QT and QT_FOR_PRIVATE
RECURSIVE MappedLibraries(_, _)
MappedLibraries(qt, known_libraries) ==
    IF qt = <<>> THEN <<>>
    ELSE (IF map_qt_library(Head(qt)) \notin known_libraries
          THEN <<map_qt_library(Head(qt))>> ELSE <<>>)
             \o MappedLibraries(Tail(qt), known_libraries)

\* write_sources_section: the loop over the dependencies
RECURSIVE LibraryLines(_, _, _)
LibraryLines(ind, dependencies, is_framework) ==
    IF dependencies = <<>> THEN ""
    ELSE IF Head(dependencies) = "-framework"
         THEN LibraryLines(ind, Tail(dependencies), TRUE)
    ELSE LET d0 == Head(dependencies)
             d1 == IF is_framework THEN "${FW" \o d0 \o "}" ELSE d0
             d2 == IF StartsWith(d1, "-l") THEN From(d1, 3) ELSE d1
             d3 == IF StartsWith(d2, "-") THEN "# Remove: " \o From(d2, 2)
                   ELSE substitute_libs(d2)
         IN  ind \o "        " \o d3 \o "\n"
                 \o LibraryLines(ind, Tail(dependencies), FALSE)

\* The keys write_sources_section resolves.
SectionKeys ==
    <<"PLUGIN_TYPE", "SOURCES", "HEADERS", "OBJECTIVE_SOURCES",
      "NO_PCH_SOURCES", "FORMS", "RESOURCES", "VPATH", "DEFINES",
      "INCLUDEPATH", "QT", "QT_FOR_PRIVATE", "QMAKE_USE_PRIVATE",
      "LIBS_PRIVATE", "LIBS">>

\* write_sources_section(cm_fh, scope, indent, known_libraries): what it
\* writes, the operations of the scope after it and what it returns.
write_sources_section(ops, ind, known_libraries) ==
    LET qrc_only(resources) ==
            \A i \in 1..Len(resources) : EndsWith(resources[i], ".qrc")
        listed(got) ==
            got["SOURCES"] \o got["HEADERS"] \o got["OBJECTIVE_SOURCES"]
                \o got["NO_PCH_SOURCES"] \o got["FORMS"]
                \o (IF qrc_only(got["RESOURCES"]) THEN got["RESOURCES"]
                    ELSE <<>>)
        mapped(files, vpath) ==
            [i \in 1..Len(files) |-> map_source_to_cmake(files[i], vpath)]
        libraries(got) ==
            MappedLibraries(got["QT"], known_libraries)
                \o MappedLibraries(got["QT_FOR_PRIVATE"], known_libraries)
                \o got["QMAKE_USE_PRIVATE"] \o got["LIBS_PRIVATE"]
                \o got["LIBS"]
        text(plugin_type, sources, defines, includes, dependencies) ==
            (IF plugin_type # <<>>
             THEN ind \o "    TYPE " \o plugin_type[1] \o "\n" ELSE "")
            \o (IF sources # <<>> THEN ind \o "    SOURCES\n" ELSE "")
            \o Lines(ind \o "        ", sort_sources(sources))
            \o (IF defines # <<>>
                THEN ind \o "    DEFINES\n"
                     \o Lines(ind \o "        ",
                              [i \in 1..Len(defines) |->
                                  Replace(defines[i],
                                          "=\\\\\\\"$$PWD/\\\\\\\"",
                                          "=\"${CMAKE_CURRENT_SOURCE_DIR}/\"")])
                ELSE "")
            \o (IF includes # <<>>
                THEN ind \o "    INCLUDE_DIRECTORIES\n"
                     \o Lines(ind \o "        ",
                              [i \in 1..Len(includes) |->
                                  IF RStripSlash(includes[i]) = "" THEN "/"
                                  ELSE RStripSlash(includes[i])])
                ELSE "")
            \o (IF dependencies # <<>>
                THEN ind \o "    LIBRARIES\n"
                     \o LibraryLines(ind, dependencies, FALSE)
                ELSE "")
        section(got) ==
            text(got["PLUGIN_TYPE"], mapped(listed(got), got["VPATH"]),
                 got["DEFINES"], got["INCLUDEPATH"], libraries(got))
    IN  [written |-> section([k \in Range(SectionKeys) |-> KeyGet(ops, k)]),
         ops |-> Resolved(ops, SectionKeys),
         ignored |-> Scope_keys(ops) \ Range(SectionKeys)]

\* The keys write_ignored_keys writes out.
ReportedKeys(keys) == keys \ {"_INCLUDED", "TARGET", "QMAKE_DOCS"}

\* write_ignored_keys: the loop over the sorted keys; Scope.get is called a
\* second time for a key with values.
RECURSIVE IgnoredKeyLines(_, _, _)
IgnoredKeyLines(ops, keys, indent) ==
    LET line(k, value_string, rest) ==
            [text |-> indent \o "# " \o k \o " = " \o value_string \o "\n"
                          \o rest.text,
             ops |-> rest.ops]
        resolved(k, got) ==
            line(k, "\"" \o Join(got.res, "\" \"") \o "\"",
                 IgnoredKeyLines([ops EXCEPT ![k] = got.ops], Tail(keys),
                                 indent))
        reported(k, values) ==
            IF values.res = <<>>
            THEN line(k, "<EMPTY>",
                      IgnoredKeyLines([ops EXCEPT ![k] = values.ops],
                                      Tail(keys), indent))
            ELSE resolved(k, Scope_get(values.ops))
    IN  IF keys = <<>> THEN [text |-> "", ops |-> ops]
        ELSE reported(Head(keys), Scope_get(ops[Head(keys)]))

\* write_ignored_keys(scope, ignored, indent): the report and the
\* operations of the scope after it.
write_ignored_keys(ops, ignored, indent) ==
    IgnoredKeyLines(ops, SortedSet(ReportedKeys(ignored)), indent)

\* write_header
write_header(name, typename, indent) ==
    LET rule == "#####################################################################"
    IN  spaces(indent) \o rule \o "\n"
            \o spaces(indent) \o "## " \o name \o " " \o typename \o ":\n"
            \o spaces(indent) \o rule \o "\n\n"

\* write_scope_header
write_scope_header(indent) ==
    "\n" \o spaces(indent) \o "## Scopes:\n"
        \o spaces(indent)
        \o "#####################################################################\n"

\* '#' + line for each line of text (splitlines with the line ends kept)
RECURSIVE CommentedOut(_)
CommentedOut(text) ==
    IF text = "" THEN ""
    ELSE LET n == CHOOSE i \in 1..Len(text) :
                      /\ SubSeq(text, i, i) = "\n" \/ i = Len(text)
                      /\ \A j \in 1..(i - 1) : SubSeq(text, j, j) # "\n"
         IN  "#" \o SubSeq(text, 1, n) \o CommentedOut(From(text, n + 1))

\* write_extend_target(cm_fh, target, scope, indent): what it writes and the
\* operations of the scope after it.
write_extend_target(target, ops, total_condition, indent) ==
    LET extend_scope(extend_qt_string, ignored_keys_report) ==
            "\n" \o spaces(indent) \o "extend_target(" \o target
                \o " CONDITION " \o total_condition \o "\n"
                \o extend_qt_string \o ignored_keys_report \o ")\n"
        text(extend_qt_string, ignored_keys_report) ==
            IF extend_qt_string # ""
            THEN extend_scope(extend_qt_string, ignored_keys_report)
            ELSE IF ignored_keys_report # ""
                 THEN CommentedOut(extend_scope(extend_qt_string,
                                                ignored_keys_report))
            ELSE ""
        reported(section, report) ==
            [written |-> text(section.written,
                              IF section.written # "" /\ report.text # ""
                              THEN "\n" \o report.text ELSE report.text),
             ops |-> report.ops]
        extended(section) ==
            reported(section,
                     write_ignored_keys(section.ops, section.ignored,
                                        spaces(indent + 1)))
    IN  extended(write_sources_section(ops, "", {}))

\* write_main_part from write_header to the call of write_sources_section
MainPartHead(name, typename, cmake_function, extra_lines, indent) ==
    write_header(name, typename, indent)
        \o spaces(indent) \o cmake_function \o "(" \o name \o "\n"
        \o Lines(spaces(indent) \o "    ", extra_lines)

\* generate_cmakelists: the line before cmakeify_scope
GeneratedFrom == "# Generated from " \o basename(File) \o ".\n\n"

\* Scope.TEMPLATE: getString('TEMPLATE', 'app')
Scope_TEMPLATE(ops) == KeyGetString(ops, "TEMPLATE", "app")

\* Scope.TARGET
Scope_TARGET(ops) ==
    LET named(target) ==
            IF target = "" THEN splitext(basename(File)) ELSE target
    IN  named(KeyGetString(ops, "TARGET", ""))

\* handle_app_or_lib and the write_ function it calls, up to the call of
\* write_main_part: the arguments of that call, or the error raised before
\* it, and the keys resolved on the way.
handle_app_or_lib(ops) ==
    LET failed(keys) ==
            [raised |-> AssertionError, keys |-> keys, name |-> "",
             typename |-> "", cmake_function |-> "", extra_lines |-> <<>>,
             known_libraries |-> {}]
        call(keys, name, typename, cmake_function, extra_lines, known) ==
            [raised |-> None, keys |-> keys, name |-> name,
             typename |-> typename, cmake_function |-> cmake_function,
             extra_lines |-> extra_lines, known_libraries |-> known]
        written(template, loaded, config, target) ==
            IF template \notin {"app", "lib"}
            THEN failed(<<"TEMPLATE">>)
            ELSE IF template = "lib" \/ "qt_module" \in loaded
            THEN IF target = AssertionError \/ ~StartsWith(target, "Qt")
                 THEN failed(<<"TEMPLATE", "_LOADED", "TARGET">>)
                 ELSE call(<<"TEMPLATE", "_LOADED", "TARGET", "CONFIG">>,
                           From(target, 3), "Module", "add_qt_module",
                           (IF "static" \in config THEN <<"STATIC">> ELSE <<>>)
                               \o (IF "no_module_headers" \in config
                                   THEN <<"NO_MODULE_HEADERS">> ELSE <<>>),
                           {"Qt::Core"})
            ELSE IF "qt_plugin" \in loaded
            THEN IF target = AssertionError \/ target = ""
                 THEN failed(<<"TEMPLATE", "_LOADED", "TARGET">>)
                 ELSE call(<<"TEMPLATE", "_LOADED", "TARGET">>, target,
                           "Plugin", "add_qt_plugin", <<>>, {"QtCore"})
            ELSE IF "qt_tool" \in loaded
            THEN IF target = AssertionError
                 THEN failed(<<"TEMPLATE", "_LOADED", "TARGET">>)
                 ELSE call(<<"TEMPLATE", "_LOADED", "TARGET">>, target, "Tool",
                           "add_qt_tool", <<>>, {"Qt::Core"})
            ELSE IF target = AssertionError \/ target = ""
            THEN failed(<<"TEMPLATE", "_LOADED", "CONFIG", "TARGET">>)
            ELSE IF "testcase" \in config \/ "testlib" \in config
            THEN call(<<"TEMPLATE", "_LOADED", "CONFIG", "TARGET">>, target,
                      "Test", "add_qt_test", <<>>, {"Qt::Core", "Qt::Test"})
            ELSE call(<<"TEMPLATE", "_LOADED", "CONFIG", "TARGET">>, target,
                      "Binary", "add_qt_executable",
                      IF "console" \in config THEN <<>> ELSE <<"GUI">>,
                      {"Qt::Core"})
    IN  written(Scope_TEMPLATE(ops), Range(KeyGet(ops, "_LOADED")),
                Range(KeyGet(ops, "CONFIG")), Scope_TARGET(ops))

\* What follows the return of write_main_part in write_module and
\* handle_app_or_lib: what is written, the error raised and the keys
\* resolved.
AfterMainPart(ops, target, indent) ==
    LET is_module == target.typename = "Module"
        keys(tracing) ==
            (IF is_module THEN <<"CONFIG">> ELSE <<>>)
                \o (IF tracing THEN <<"TRACEPOINT_PROVIDER">> ELSE <<>>)
        traced(tracing, provider) ==
            IF tracing
            THEN "\n\n" \o spaces(indent) \o "qt_create_tracepoints("
                     \o target.name \o " " \o map_to_file(provider) \o ")\n"
            ELSE ""
        written(tracing, provider, docs) ==
            IF tracing /\ provider = AssertionError
            THEN [written |-> "", raised |-> AssertionError,
                  keys |-> keys(tracing)]
            ELSE IF docs = AssertionError
            THEN [written |-> traced(tracing, provider),
                  raised |-> AssertionError,
                  keys |-> keys(tracing) \o <<"QMAKE_DOCS">>]
            ELSE [written |-> traced(tracing, provider)
                                  \o (IF docs # ""
                                      THEN "\n" \o spaces(indent)
                                               \o "add_qt_docs("
                                               \o map_to_file(docs) \o ")\n"
                                      ELSE ""),
                  raised |-> None, keys |-> keys(tracing) \o <<"QMAKE_DOCS">>]
    IN  written(is_module /\ "qt_tracepoints" \in Range(KeyGet(ops, "CONFIG")),
                KeyGetString(ops, "TRACEPOINT_PROVIDER", ""),
                KeyGetString(ops, "QMAKE_DOCS", ""))

\* write_main_part down to the call of write_sources_section: the scopes
\* evaluated and merged, the two lists, what was written and the error
\* raised.
MainPartStart(scs, target, indent) ==
    LET merged_scopes(st, flattened) ==
            IF \/ Len(st.result) = 0
               \/ st.scs[st.result[1]].total_condition # "ON"
            THEN [scs |-> st.scs, flat |-> flattened, merged |-> st.result,
                  written |-> "", raised |-> AssertionError]
            ELSE [scs |-> st.scs, flat |-> flattened, merged |-> st.result,
                  written |-> MainPartHead(target.name, target.typename,
                                           target.cmake_function,
                                           target.extra_lines, indent),
                  raised |-> None]
        flat_scopes(evaluated, flattened) ==
            merged_scopes(merge_scopes(evaluated.scs, flattened), flattened)
        evaluated_scopes(evaluated) ==
            IF evaluated.raised # None
            THEN [scs |-> evaluated.scs, flat |-> <<>>, merged |-> <<>>,
                  written |-> "", raised |-> evaluated.raised]
            ELSE flat_scopes(evaluated, flatten_scopes(evaluated.scs, 1))
    IN  evaluated_scopes(recursive_evaluate_scope(scs, 1, "", ""))

\* write_main_part: the loop over scopes[1:]
RECURSIVE ExtendTargets(_, _, _, _, _)
ExtendTargets(scs, name, list, i, indent) ==
    LET before(written, rest) ==
            [written |-> written \o rest.written, scs |-> rest.scs]
        extended(c, done) ==
            before(done.written,
                   ExtendTargets([scs EXCEPT ![c].operations = done.ops],
                                 name, list, i + 1, indent))
        scope(c) ==
            extended(c, write_extend_target(name, scs[c].operations,
                                            scs[c].total_condition, indent))
    IN  IF i > Len(list) THEN [written |-> "", scs |-> scs]
        ELSE scope(list[i])

\* write_main_part after its footer: nothing for a list of one scope.
MainPartScopes(scs, name, list, indent) ==
    LET headed(done) ==
            [written |-> write_scope_header(indent) \o done.written,
             scs |-> done.scs]
    IN  IF Len(list) = 1 THEN [written |-> "", scs |-> scs]
        ELSE headed(ExtendTargets(scs, name, list, 2, indent))

(***************************************************************************)
(* The run of the converter on one .pro file: Scope.FromDict builds the    *)
(* tree statement by statement, do_include merges the included files,      *)
(* write_main_part evaluates, flattens and merges the scopes.              *)
(***************************************************************************)
RECURSIVE CountOps(_, _, _)
CountOps(scs, key, i) ==
    IF i > Len(scs) THEN 0
    ELSE Len(scs[i].operations[key]) + CountOps(scs, key, i + 1)

Init ==
    /\ scopes = <<Scope(1, 0, "", 0)>>
    /\ pc = "build"
    /\ flat = <<>>
    /\ merged = <<>>
    /\ operations = [k \in Keys |-> <<>>]
    /\ visited_keys = {}
    /\ result = <<>>
    /\ called = ""
    /\ condition_in = None
    /\ condition_out = None
    /\ returned = <<>>
    /\ ignored_keys = {}
    /\ output = ""
    /\ raised = None

\* Scope.FromDict on the statement SOURCES += <file> of scope self.
Assignment(self) ==
    LET n == CountOps(scopes, "SOURCES", 1)
    IN  /\ pc = "build"
        /\ n < MaxAssignments
        /\ n < Len(Sources)
        /\ scopes' = _append_operation(scopes, self, "SOURCES",
                         Operation("Add", <<map_to_file(Sources[n + 1])>>))
        /\ UNCHANGED <<pc, flat, merged, opsVars, condVars, keyVars>>

\* Scope.FromDict on a block "condition { ... }" of scope self, with or
\* without an else branch: the scope of the else branch is made with the
\* condition 'NOT ' + condition.
Conditional(self, condition, with_else) ==
    LET id == Len(scopes) + 1
        then_scope == _add_child(Append(scopes, Scope(id, self, condition, 0)),
                                 self, id)
        else_scope == _add_child(Append(then_scope,
                                        Scope(id + 1, self, "NOT " \o condition, id)),
                                 self, id + 1)
    IN  /\ pc = "build"
        /\ Len(scopes) + (IF with_else THEN 2 ELSE 1) <= MaxScopes
        /\ scopes' = IF with_else THEN else_scope ELSE then_scope
        /\ UNCHANGED <<pc, flat, merged, opsVars, condVars, keyVars>>

\* Scope.FromDict on the statement include(path) of scope self.  The value
\* handed to the operation is a str, which Operation.__init__ puts into a
\* list of one.  The include statements of the converted file are those of
\* one scope.
Included(self, path) ==
    /\ pc = "build"
    /\ CountOps(scopes, "_INCLUDED", 1) < MaxIncludes
    /\ \A s \in DOMAIN scopes \ {self} : scopes[s].operations["_INCLUDED"] = <<>>
    /\ scopes' = _append_operation(scopes, self, "_INCLUDED",
                     Operation("UniqueAdd", <<map_to_file(path)>>))
    /\ UNCHANGED <<pc, flat, merged, opsVars, condVars, keyVars>>

\* main: do_include(file_scope)
DoInclude ==
    /\ pc = "build"
    /\ pc' = "included"
    /\ scopes' = do_include(scopes, 1)
    /\ UNCHANGED <<flat, merged, opsVars, condVars, keyVars>>

\* generate_cmakelists down to recursive_evaluate_scope(scope) in
\* write_main_part: the line that names the file is written before
\* cmakeify_scope is called.
Evaluate ==
    LET done == recursive_evaluate_scope(scopes, 1, "", "")
    IN  /\ pc = "included"
        /\ raised = None
        /\ pc' = IF done.raised = None THEN "evaluated" ELSE pc
        /\ scopes' = done.scs
        /\ raised' = done.raised
        /\ output' = output \o GeneratedFrom
        /\ UNCHANGED <<flat, merged, opsVars, condVars, returned, ignored_keys>>

\* write_main_part: flattened_scopes = flatten_scopes(scope)
Flatten ==
    /\ pc = "evaluated"
    /\ pc' = "flattened"
    /\ flat' = flatten_scopes(scopes, 1)
    /\ UNCHANGED <<scopes, merged, opsVars, condVars, keyVars>>

\* write_main_part: merged_scopes = merge_scopes(flattened_scopes), and the
\* two asserts on the list.
Merge ==
    LET st == merge_scopes(scopes, flat)
    IN  /\ pc = "flattened"
        /\ pc' = "merged"
        /\ scopes' = st.scs
        /\ merged' = st.result
        /\ raised' = IF \/ Len(st.result) = 0
                        \/ st.scs[st.result[1]].total_condition # "ON"
                     THEN AssertionError ELSE None
        /\ UNCHANGED <<flat, opsVars, condVars, returned, ignored_keys, output>>

\* write_main_part from write_header to its end, and what follows its
\* return in handle_app_or_lib.  The file of this model holds no TEMPLATE,
\* _LOADED, CONFIG or TARGET statement; its operations are all of the kind
\* +=, which no Scope.get changes.
WriteMainPart ==
    /\ pc = "merged"
    /\ raised = None
    /\ pc' = "written"
    /\ \E target \in {handle_app_or_lib(scopes[1].operations)} :
       \E section \in {write_sources_section(scopes[merged[1]].operations,
                                             spaces(0),
                                             target.known_libraries)} :
       \E report \in {write_ignored_keys(section.ops, section.ignored,
                                         spaces(1))} :
       \E extended \in {MainPartScopes(scopes, target.name, merged, 0)} :
       \E after \in {AfterMainPart(report.ops, target, 0)} :
           /\ output' = output
                            \o MainPartHead(target.name, target.typename,
                                            target.cmake_function,
                                            target.extra_lines, 0)
                            \o section.written \o report.text
                            \o spaces(0) \o ")\n"
                            \o extended.written \o after.written
           /\ raised' = after.raised
           /\ scopes' = extended.scs
    /\ UNCHANGED <<flat, merged, opsVars, condVars, returned, ignored_keys>>

Next ==
    \/ \E self \in DOMAIN scopes : Assignment(self)
    \/ \E self \in DOMAIN scopes, condition \in RawConditions,
          with_else \in BOOLEAN : Conditional(self, condition, with_else)
    \/ \E self \in DOMAIN scopes, path \in IncludePaths : Included(self, path)
    \/ DoInclude
    \/ Evaluate
    \/ Flatten
    \/ Merge
    \/ WriteMainPart

Spec == Init /\ [][Next]_vars

(***************************************************************************)
(* Claims about the scope tree (checked under Spec).                       *)
(***************************************************************************)
\* The expression simplify_condition parses out of a condition text.
ConditionExpr(condition) ==
    sympify(ToSympy(Replace(Replace(" " \o Strip(condition) \o " ",
                                    "(", " ( "), ")", " ) ")))

\* The truth assignments (sets of true symbols) that _recursive_simplify's
\* knowledge of the platforms allows: exactly one of WIN32 and UNIX, LINUX
\* only with UNIX, WINRT only with WIN32.
PlatformAssignments ==
    {A \in SUBSET {"WIN32", "UNIX", "LINUX", "WINRT"} :
        /\ ("WIN32" \in A) # ("UNIX" \in A)
        /\ "LINUX" \in A => "UNIX" \in A
        /\ "WINRT" \in A => "WIN32" \in A}

IsTrue(condition, A) == Eval(ConditionExpr(condition), A)

\* The condition the claim gives the else branch of a branch with condition c.
NegatedCondition(c) ==
    IF is_simple_condition(c) THEN "NOT " \o c ELSE "NOT (" \o c \o ")"

Evaluated == pc \in {"evaluated", "flattened", "merged"}

ElseScopes == {e \in DOMAIN scopes : scopes[e].else_of # 0}

\* C5: the condition of the scope of an else branch is the negation of the
\* whole condition c of the branch before it (NOT c for a single, possibly
\* negated, token and NOT (c) for a compound c), so that the total
\* conditions of the two scopes are never true under one truth assignment.
C5_ElseNegatesWholeCondition ==
    Evaluated =>
        \A e \in ElseScopes :
            LET t == scopes[e].else_of
            IN  /\ scopes[e].condition = NegatedCondition(scopes[t].condition)
                /\ \A A \in PlatformAssignments :
                       ~(/\ IsTrue(scopes[t].total_condition, A)
                         /\ IsTrue(scopes[e].total_condition, A))

\* The tree Scope.FromDict builds for
\*     win32: SOURCES += w.cpp
\*     else: SOURCES += u.cpp
Add(file) == Operation("Add", <<file>>)

NoOperations == [k \in ScopeKeys |-> <<>>]

C6_Input ==
    /\ Len(scopes) = 3
    /\ scopes[1].children = <<2, 3>>
    /\ scopes[1].operations = NoOperations
    /\ scopes[2].condition = "WIN32"
    /\ scopes[2].else_of = 0
    /\ scopes[2].children = <<>>
    /\ scopes[2].operations = [NoOperations EXCEPT !["SOURCES"] = <<Add("w.cpp")>>]
    /\ scopes[3].else_of = 2
    /\ scopes[3].children = <<>>
    /\ scopes[3].operations = [NoOperations EXCEPT !["SOURCES"] = <<Add("u.cpp")>>]

\* C6: for that input the merged list holds the root and exactly two more
\* scopes, with total conditions WIN32 (holding w.cpp) and UNIX (holding
\* u.cpp); NOT WIN32 simplifies to UNIX and NOT UNIX to WIN32.
C6_Win32ElseBecomesUnix ==
    (pc = "merged" /\ C6_Input) =>
        /\ merged = <<1, 2, 3>>
        /\ scopes[2].total_condition = "WIN32"
        /\ scopes[3].total_condition = "UNIX"
        /\ Scope_get(scopes[2].operations["SOURCES"]).res = <<"w.cpp">>
        /\ Scope_get(scopes[3].operations["SOURCES"]).res = <<"u.cpp">>
        /\ simplify_condition("NOT WIN32") = "UNIX"
        /\ simplify_condition("NOT UNIX") = "WIN32"

C6_Witness ==
    /\ pc = "merged"
    /\ C6_Input
    /\ Len(merged) = 3
    /\ scopes[3].total_condition = "UNIX"

\* The positions of list whose scopes have the total condition tc.
SameCondition(scs, list, tc) ==
    {j \in 1..Len(list) : scs[list[j]].total_condition = tc}

Min(S) == CHOOSE m \in S : \A n \in S : m <= n

\* The operations the scopes at the positions of S hold for a key, one scope
\* after the other in the order of the list.
RECURSIVE OperationsInOrder(_, _, _, _)
OperationsInOrder(scs, list, S, key) ==
    IF S = {} THEN <<>>
    ELSE scs[list[Min(S)]].operations[key]
         \o OperationsInOrder(scs, list, S \ {Min(S)}, key)

IsMerge == pc = "flattened" /\ pc' = "merged"

\* C7: merge_scopes makes one entry of the scopes of the flattened list that
\* have the same total_condition (not OFF): the first of them, and no other
\* of them, is in the result, and for every key its operation list is its
\* own operations followed by those of the later ones in list order.
C7_MergeConcatenatesInOrder ==
    [][IsMerge =>
        \A i \in 1..Len(flat) :
            LET tc == scopes[flat[i]].total_condition
                same == SameCondition(scopes, flat, tc)
            IN  (tc # "OFF" /\ i = Min(same)) =>
                    /\ \E m \in 1..Len(merged') : merged'[m] = flat[i]
                    /\ \A j \in same \ {i} :
                           \A m \in 1..Len(merged') : merged'[m] # flat[j]
                    /\ \A key \in ScopeKeys :
                           scopes'[flat[i]].operations[key] =
                               OperationsInOrder(scopes, flat, same, key)]_vars

C7_Witness ==
    /\ pc = "merged"
    /\ \E i, j \in 1..Len(flat) :
           /\ i < j
           /\ scopes[flat[i]].total_condition = scopes[flat[j]].total_condition
           /\ scopes[flat[i]].total_condition # "OFF"
           /\ scopes[flat[j]].operations["SOURCES"] # <<>>
           /\ scopes[flat[i]].operations["SOURCES"]
                  = <<Add("w.cpp")>> \o scopes[flat[j]].operations["SOURCES"]
           /\ flat[j] \notin Range(merged)

\* s is t without some of its elements, the others in t's order.
RECURSIVE IsSubsequence(_, _)
IsSubsequence(s, t) ==
    IF s = <<>> THEN TRUE
    ELSE IF t = <<>> THEN FALSE
    ELSE IF Head(s) = Head(t) THEN IsSubsequence(Tail(s), Tail(t))
    ELSE IsSubsequence(s, Tail(t))

\* C8: the list merge_scopes returns holds no scope with total_condition
\* OFF, no two scopes with the same total_condition, and is a subsequence
\* of the list it was given.
C8_MergedListIsCanonical ==
    pc = "merged" =>
        /\ \A m \in 1..Len(merged) : scopes[merged[m]].total_condition # "OFF"
        /\ \A m, n \in 1..Len(merged) :
               scopes[merged[m]].total_condition = scopes[merged[n]].total_condition
                   => m = n
        /\ IsSubsequence(merged, flat)

C8_Witness ==
    /\ pc = "merged"
    /\ \E i \in 1..Len(flat) : scopes[flat[i]].total_condition = "OFF"
    /\ \E i, j \in 1..Len(flat) :
           /\ i < j
           /\ scopes[flat[i]].total_condition = scopes[flat[j]].total_condition
           /\ scopes[flat[i]].total_condition # "OFF"
    /\ Len(merged) + 2 <= Len(flat)

\* C9: after recursive_evaluate_scope, flatten_scopes and merge_scopes the
\* merged list is not empty and its first element is the root scope, with
\* total_condition "ON", whatever tree Scope.FromDict and do_include built,
\* so that neither of the two asserts of write_main_part fails.
C9_RootFirstAndOn ==
    pc = "merged" =>
        /\ merged # <<>>
        /\ merged[1] = 1
        /\ scopes[merged[1]].total_condition = "ON"
        /\ raised = None

C9_Witness ==
    /\ pc = "merged"
    /\ Len(merged) >= 2
    /\ merged[1] = 1
    /\ scopes[1].total_condition = "ON"
    /\ \E i \in DOMAIN scopes : i # 1 /\ scopes[i].parent = 0

(***************************************************************************)
(* More claims about simplify_condition (checked under SpecCond).          *)
(***************************************************************************)
\* The condition parses into the Boolean algebra: the sympy calls of
\* simplify_condition raise nothing on it.
Parses(condition) == simplify_logic(ConditionExpr(condition)) # ErrorE

\* C12: simplify_condition is idempotent: a call on the result of a call on
\* a condition that parses returns that result again.
C12_SimplifyIdempotent ==
    [][(condition_out # None /\ Parses(condition_in))
           => condition_out' = condition_out]_vars

C12_Witness ==
    /\ condition_in = "a AND b"
    /\ condition_out = "a AND b"

(***************************************************************************)
(* More claims about the scope tree (checked under Spec).                  *)
(***************************************************************************)
\* The scopes that are part of the run: the root and the scopes with a
\* parent (the scope of an included file is dropped after its merge).
LiveScopes == {s \in DOMAIN scopes : s = 1 \/ scopes[s].parent # 0}

\* What Scope.get(key) returns on scope s of scs.
GetOf(scs, s, key) == Scope_get(scs[s].operations[key]).res

\* The step is an operation on scope s: a statement of s handled by
\* Scope.FromDict, an included file merged into s by do_include, or a scope
\* merged into s by merge_scopes.
OperatedOn(s) ==
    \/ /\ pc = "build" /\ pc' = "build"
       /\ \E key \in ScopeKeys :
              /\ scopes'[s].operations[key] # <<>>
              /\ scopes' = _append_operation(scopes, s, key,
                                             Last(scopes'[s].operations[key]))
    \/ /\ pc = "build" /\ pc' = "included"
       /\ \E f \in Range(Scope_INCLUDED(scopes, s)) : f \in DOMAIN ProFiles
    \/ /\ pc = "flattened" /\ pc' = "merged"
       /\ s \in Range(merged')

\* C13: what Scope.get(key) returns for a scope depends on the scope's own
\* operations only: a step that operates on other scopes (its parent, its
\* siblings, its children) does not change it.
C13_GetFrame ==
    [][\A s \in LiveScopes, key \in ScopeKeys :
           ~OperatedOn(s) => GetOf(scopes', s, key) = GetOf(scopes, s, key)]_vars

\* simplify_condition on the texts that join a total_condition of this model
\* with a condition of a scope: its calls on these texts, made once.
TotalTexts ==
    {JoinedCondition(e[2], c) : e \in SimplifiedTexts, c \in OwnConditions}

SimplifiedTotalTexts == {<<t, simplify_condition(t)>> : t \in TotalTexts}

SimplifiedTotal(text) ==
    IF \E e \in SimplifiedTotalTexts : e[1] = text
    THEN (CHOOSE e \in SimplifiedTotalTexts : e[1] = text)[2]
    ELSE Simplified(text)

\* The effective condition of scope s: its own condition, or for the
\* condition else the negation of the condition of the sibling before it.
EffectiveCondition(s) ==
    LET kids == scopes[scopes[s].parent].children
        i == CHOOSE i \in 1..Len(kids) : kids[i] = s
    IN  OwnCondition(scopes[s].condition,
                     IF i = 1 THEN "" ELSE scopes[kids[i - 1]].condition)

\* C14: once recursive_evaluate_scope has run on the root, the
\* total_condition of every scope but the root is simplify_condition of its
\* parent's total_condition AND its own effective condition (of the
\* parent's alone when its own is empty), an operand standing in parentheses
\* exactly when it is neither a single token nor a single negated token.
C14_TotalConditionOfParentAndOwn ==
    Evaluated =>
        \A s \in LiveScopes :
            s # 1 =>
                scopes[s].total_condition =
                    SimplifiedTotal(
                        JoinedCondition(scopes[scopes[s].parent].total_condition,
                                        EffectiveCondition(s)))

\* The condition text recursive_evaluate_scope joins for a scope before it
\* simplifies it: the effective conditions of the scope and of its ancestors.
RECURSIVE ConditionText(_)
ConditionText(s) ==
    IF scopes[s].parent = 0 THEN scopes[s].condition
    ELSE JoinedCondition(ConditionText(scopes[s].parent), EffectiveCondition(s))

JustEvaluated == pc \in {"evaluated", "flattened"}

\* C14, amended: once recursive_evaluate_scope has run on the root, the
\* total_condition of every scope but the root is simplify_condition of the
\* text joined for its parent before simplification (empty for the root) AND
\* its own effective condition, with the same parentheses.
C14_TotalConditionOfJoinedText ==
    JustEvaluated =>
        \A s \in LiveScopes :
            s # 1 =>
                scopes[s].total_condition =
                    Simplified(JoinedCondition(ConditionText(scopes[s].parent),
                                               EffectiveCondition(s)))

\* The scope of win32|linux in the scope of !win32: its parent's
\* total_condition is UNIX, the text joined for the parent NOT WIN32.
C14_Witness ==
    /\ JustEvaluated
    /\ \E s \in LiveScopes :
           /\ s # 1 /\ scopes[s].parent # 1
           /\ scopes[s].condition = "WIN32 OR LINUX"
           /\ ConditionText(scopes[s].parent) = "NOT WIN32"
           /\ scopes[scopes[s].parent].total_condition = "UNIX"
           /\ scopes[s].total_condition = "LINUX"

\* C15: when sympy rejects the condition, simplify_condition raises nothing
\* and returns the condition it was given, stripped; a result that is empty
\* is replaced by ON.
C15_ErrorLeavesConditionAlone ==
    (condition_out # None /\ ~Parses(condition_in)) =>
        /\ condition_out # ""
        /\ condition_out =
               IF Strip(condition_in) = "" THEN "ON" ELSE Strip(condition_in)

C15_Witness ==
    \/ condition_in = " a b " /\ condition_out = "a b"
    \/ condition_in = "  " /\ condition_out = "ON"

\* os.path.isfile
IsFile(f) == f \in DOMAIN ProFiles

\* The scopes with the entries that name no existing file taken out of their
\* _INCLUDED operations.
WithoutMissingFiles(scs) ==
    [i \in DOMAIN scs |->
        [scs[i] EXCEPT !.operations["_INCLUDED"] =
            [j \in DOMAIN @ |-> [@[j] EXCEPT !.value = SelectSeq(@, IsFile)]]]]

\* The operations of the keys but _INCLUDED, the children and the parent of
\* every scope.
TreeAndOperations(scs) ==
    [i \in DOMAIN scs |->
        [children |-> scs[i].children, parent |-> scs[i].parent,
         operations |-> [k \in ScopeKeys \ {"_INCLUDED"} |->
                             scs[i].operations[k]]]]

\* C16: do_include skips an entry of _INCLUDED that names no existing file:
\* it leaves the operations and the children as they would be without the
\* entry, and goes on with the entries after it.
C16_MissingIncludeIsSkipped ==
    [][(pc = "build" /\ pc' = "included") =>
           TreeAndOperations(scopes') =
               TreeAndOperations(do_include(WithoutMissingFiles(scopes), 1))]_vars

\* A scope that included the file p after it skipped the missing q.
C16_Witness ==
    /\ pc = "included"
    /\ \E s \in LiveScopes :
           /\ Scope_INCLUDED(scopes, s) = <<"q", "p">>
           /\ \E j \in DOMAIN scopes[s].operations["SOURCES"] :
                  scopes[s].operations["SOURCES"][j] = Add("i.cpp")
           /\ scopes[s].children # <<>>

(***************************************************************************)
(* The unhandled keys of the scope of the converted file.  main resolves   *)
(* _INCLUDED (do_include); cmakeify_scope and handle_app_or_lib resolve    *)
(* the keys that choose the kind of target; write_sources_section resets   *)
(* the visited keys, resolves the keys it writes and returns the keys of   *)
(* the scope it did not visit; write_ignored_keys writes those out.  For   *)
(* the template subdirs cmakeify_scope calls handle_subdir instead.  The   *)
(* scope of the file is scopes[1] with its operations in the variable      *)
(* operations; the blocks of the file are its child scopes.                *)
(***************************************************************************)
MaxStatements == 3      \* statements of the converted file

ProKeys ==
    {"TEMPLATE", "TARGET", "CONFIG", "_LOADED", "SOURCES", "QMAKE_CXXFLAGS",
     "SUBDIRS"}

\* os.path.isdir is true for the paths of Dirs; os.path.isfile is false for
\* every SUBDIRS entry of this model.
Dirs == {"sub"}


\* The operations Scope.FromDict makes for the statements of this model.
Statements ==
    [key \in ProKeys |->
        CASE key = "TEMPLATE" -> {Operation("Set", <<"app">>),
                                  Operation("Set", <<"lib">>),
                                  Operation("Set", <<"subdirs">>),
                                  Operation("Add", <<"lib">>)}
          [] key = "TARGET" -> {Operation("Set", <<"QtCore">>)}
          [] key = "CONFIG" -> {Operation("Add", <<"console">>),
                                Operation("Add", <<"testcase">>)}
          [] key = "_LOADED" -> {Operation("UniqueAdd", <<"qt_tool">>)}
          [] key = "SOURCES" -> {Operation("Add", <<"main.cpp">>),
                                 Operation("Add", <<"util.cpp">>)}
          [] key = "QMAKE_CXXFLAGS" -> {Operation("Add", <<"-O2">>)}
          [] key = "SUBDIRS" -> {Operation("Add", <<"sub">>),
                                 Operation("Add", <<"-old">>),
                                 Operation("Add", <<"gone">>)}]

KeysInit ==
    /\ operations = [k \in ProKeys |-> <<>>]
    /\ visited_keys = {}
    /\ ignored_keys = {}
    /\ output = ""
    /\ raised = None
    /\ pc = "statements"
    /\ result = <<>>
    /\ called = ""
    /\ returned = <<>>
    /\ scopes = <<Scope(1, 0, "", 0)>>
    /\ flat = <<>>
    /\ merged = <<>>
    /\ condition_in = None
    /\ condition_out = None

KeysUnchanged == UNCHANGED <<result, called, returned, condVars>>

StatementCount(ops) == SumOver(ProKeys, [k \in ProKeys |-> Len(ops[k])])

\* Scope.FromDict on a statement of the file.
Statement(key, op) ==
    /\ pc = "statements"
    /\ StatementCount(operations) + Len(scopes) - 1 < MaxStatements
    /\ operations' = [operations EXCEPT ![key] = Append(@, op)]
    /\ UNCHANGED <<visited_keys, ignored_keys, pc, scopes, flat, merged, output,
                   raised>>
    /\ KeysUnchanged

\* Scope.FromDict on a block of the file: a child scope with the condition.
Block(condition) ==
    LET id == Len(scopes) + 1
    IN  /\ pc = "statements"
        /\ StatementCount(operations) + Len(scopes) - 1 < MaxStatements
        /\ scopes' = _add_child(Append(scopes, Scope(id, 1, condition, 0)), 1, id)
        /\ UNCHANGED <<operations, visited_keys, ignored_keys, pc, flat, merged,
                       output, raised>>
        /\ KeysUnchanged

\* main: do_include(file_scope) resolves _INCLUDED; the file of this model
\* includes nothing.
ResolveIncluded ==
    /\ pc = "statements"
    /\ pc' = "included"
    /\ visited_keys' = visited_keys \cup {"_INCLUDED"}
    /\ operations' = Resolved(operations, <<"_INCLUDED">>)
    /\ UNCHANGED <<ignored_keys, scopes, flat, merged, output, raised>>
    /\ KeysUnchanged

\* generate_cmakelists on a file whose template is not subdirs, down to the
\* call of write_sources_section in write_main_part: cmakeify_scope,
\* handle_app_or_lib, the write_ function of the target and the start of
\* write_main_part.  The templates of this model are app, lib and subdirs.
ChooseTarget ==
    /\ pc = "included"
    /\ raised = None
    /\ pc' = "target"
    /\ \E template \in {Scope_TEMPLATE(operations)} :
       \E target \in {handle_app_or_lib(operations)} :
       \E start \in {MainPartStart(scopes, target, 0)} :
           LET keys == IF template = AssertionError THEN <<"TEMPLATE">>
                       ELSE target.keys
               failed == template = AssertionError \/ target.raised # None
           IN  /\ template \in {"app", "lib", AssertionError}
               /\ visited_keys' = visited_keys \cup Range(keys)
               /\ operations' = Resolved(operations, keys)
               /\ scopes' = IF failed THEN scopes ELSE start.scs
               /\ flat' = IF failed THEN flat ELSE start.flat
               /\ merged' = IF failed THEN merged ELSE start.merged
               /\ output' = output \o GeneratedFrom
                                 \o (IF failed THEN "" ELSE start.written)
               /\ raised' = IF failed THEN AssertionError ELSE start.raised
    /\ UNCHANGED ignored_keys
    /\ KeysUnchanged

TypeError == "<TypeError>"

\* handle_subdir, the loop over scope.get('SUBDIRS', []): what it writes.
RECURSIVE SubdirLines(_, _)
SubdirLines(ind, subdirs) ==
    IF subdirs = <<>> THEN ""
    ELSE LET sd == Head(subdirs)
         IN  (IF sd \in Dirs
              THEN ind \o "add_subdirectory(" \o sd \o ")\n"
              ELSE IF StartsWith(sd, "-")
              THEN ind \o "### remove_subdirectory(\"" \o From(sd, 2) \o "\")\n"
              ELSE "")
             \o SubdirLines(ind, Tail(subdirs))

\* handle_subdir(scope, cm_fh) on the scope with the operations ops: what it
\* wrote and the error it raised.  Scope.children is a property, so
\* scope.children() calls the list of the children, whatever it holds, and
\* the body of the loop over the children is never run.
handle_subdir(ops, children, ind) ==
    IF Scope_TEMPLATE(ops) # "subdirs"
    THEN [written |-> "", raised |-> AssertionError]
    ELSE [written |-> SubdirLines(ind, KeyGet(ops, "SUBDIRS")),
          raised |-> TypeError]

\* generate_cmakelists on a file whose template is subdirs: cmakeify_scope
\* and handle_subdir.
HandleSubdir ==
    /\ pc = "included"
    /\ raised = None
    /\ Scope_TEMPLATE(operations) = "subdirs"
    /\ pc' = "subdirs"
    /\ visited_keys' = visited_keys \cup {"TEMPLATE", "SUBDIRS"}
    /\ operations' = Resolved(operations, <<"TEMPLATE", "SUBDIRS">>)
    /\ \E done \in {handle_subdir(operations, scopes[1].children, "")} :
           /\ output' = output \o GeneratedFrom \o done.written
           /\ raised' = done.raised
    /\ UNCHANGED <<ignored_keys, scopes, flat, merged>>
    /\ KeysUnchanged

\* write_main_part: ignored_keys = write_sources_section(cm_fh, scopes[0])
WriteSourcesSection ==
    /\ pc = "target"
    /\ raised = None
    /\ pc' = "sources"
    /\ visited_keys' = Range(SectionKeys)
    /\ \E section \in {write_sources_section(
                           operations, spaces(0),
                           handle_app_or_lib(operations).known_libraries)} :
           /\ operations' = section.ops
           /\ ignored_keys' = section.ignored
           /\ output' = output \o section.written
    /\ UNCHANGED <<scopes, flat, merged, raised>>
    /\ KeysUnchanged

\* write_main_part: write_ignored_keys(scopes[0], ignored_keys, ...), the
\* report and the footer written.
WriteIgnoredKeys ==
    /\ pc = "sources"
    /\ pc' = "ignored"
    /\ visited_keys' = visited_keys \cup ReportedKeys(ignored_keys)
    /\ \E report \in {write_ignored_keys(operations, ignored_keys,
                                         spaces(1))} :
           /\ operations' = report.ops
           /\ output' = output \o report.text \o spaces(0) \o ")\n"
    /\ UNCHANGED <<ignored_keys, scopes, flat, merged, raised>>
    /\ KeysUnchanged

\* write_main_part after its footer, and what follows its return in
\* write_module and handle_app_or_lib.
WriteScopes ==
    /\ pc = "ignored"
    /\ pc' = "done"
    /\ \E target \in {handle_app_or_lib(operations)} :
       \E extended \in {MainPartScopes(scopes, target.name, merged, 0)} :
       \E after \in {AfterMainPart(operations, target, 0)} :
           /\ scopes' = extended.scs
           /\ visited_keys' = visited_keys \cup Range(after.keys)
           /\ operations' = Resolved(operations, after.keys)
           /\ output' = output \o extended.written \o after.written
           /\ raised' = after.raised
    /\ UNCHANGED <<ignored_keys, flat, merged>>
    /\ KeysUnchanged

KeysNext ==
    \/ \E key \in ProKeys : \E op \in Statements[key] : Statement(key, op)
    \/ \E condition \in {"win32", "linux"} : Block(condition)
    \/ ResolveIncluded
    \/ ChooseTarget
    \/ HandleSubdir
    \/ WriteSourcesSection
    \/ WriteIgnoredKeys
    \/ WriteScopes

SpecKeys == KeysInit /\ [][KeysNext]_vars

\* C17: the keys write_sources_section returns for a scope are the keys with
\* operations in the scope that no Scope.get resolved on it, before the
\* call (TEMPLATE, CONFIG and _LOADED are resolved to choose the target) or
\* in it.
C17_UnhandledKeysNeverResolved ==
    [][(pc = "target" /\ pc' = "sources") =>
           ignored_keys' = {k \in Scope_keys(operations) :
                                k \notin visited_keys \cup visited_keys'}]_vars

(***************************************************************************)
(* More claims about the operations of a key (checked under SpecOps).      *)
(***************************************************************************)
\* C18: Scope.getString(key, default) returns default when the key resolves
\* to an empty list, the element when it resolves to a list of one, and
\* fails its assertion when it resolves to a longer list.
C18_GetStringByLength ==
    returned # <<>> =>
        LET v == result    \* what Scope.get(key) returned in the call
            default == returned[1]
            outcome == returned[2]
        IN  /\ Len(v) = 0 => outcome = default
            /\ Len(v) = 1 => outcome = v[1]
            /\ Len(v) > 1 => outcome = AssertionError

C18_Witness ==
    /\ returned # <<>>
    /\ Len(result) > 1
    /\ returned[2] = AssertionError

(***************************************************************************)
(* More claims about the scopes Scope.FromDict makes (checked under Spec). *)
(***************************************************************************)
\* C19: the scope Scope.FromDict makes for an else branch has the literal
\* token else as its condition; the negation of the condition before it is
\* worked out by recursive_evaluate_scope only.
C19_ElseConditionIsElse ==
    \A e \in ElseScopes : scopes[e].condition = "else"

\* How often x stands in the list seq.
Occurrences(seq, x) == Cardinality({i \in DOMAIN seq : seq[i] = x})

\* How often x stands in the children lists of the scopes of the run.
Listings(x) ==
    LET RECURSIVE Sum(_)
        Sum(S) == IF S = {} THEN 0
                  ELSE LET s == CHOOSE s \in S : TRUE
                       IN  Occurrences(scopes[s].children, x) + Sum(S \ {s})
    IN  Sum(LiveScopes)

\* C20: whatever Scope.merge calls do_include and merge_scopes have made,
\* every scope but the root stands once in the children list of its parent
\* and in no other children list, so that flatten_scopes lists every scope
\* once.
C20_MergeReparents ==
    /\ \A s \in LiveScopes \ {1} :
           /\ Listings(s) = 1
           /\ Occurrences(scopes[scopes[s].parent].children, s) = 1
    /\ \A s \in LiveScopes : Occurrences(flatten_scopes(scopes, 1), s) = 1

\* C21: a Scope.get(key) call changes the visited keys of the scope and
\* nothing else: the operations of every key, and the value list every
\* operation holds (that of a Set before a UniqueAdd too), are after the
\* call what they were before it.
C21_GetLeavesOperationsAlone ==
    [][\A key \in Keys : IsGet(key) => operations' = operations]_vars

\* What handle_subdir is to write for the children of a scope: if(<condition>)
\* before and endif() after a child with a condition (the children of SpecKeys
\* hold no statement and write nothing themselves).
RECURSIVE ChildLines(_, _, _)
ChildLines(scs, children, ind) ==
    IF children = <<>> THEN ""
    ELSE LET cond == scs[Head(children)].condition
         IN  (IF cond # ""
              THEN "\n" \o ind \o "if(" \o cond \o ")\n" \o ind \o "endif()\n"
              ELSE "")
             \o ChildLines(scs, Tail(children), ind)

\* C22: for a scope whose TEMPLATE is subdirs, handle_subdir finishes without
\* raising an error, having written (after the line of generate_cmakelists
\* that names the file) the lines of the SUBDIRS entries and then,
\* for each child scope in order, if(<condition>) before and endif() after
\* the output of a child with a non-empty condition.
C22_HandleSubdirFinishes ==
    pc = "subdirs" =>
        /\ raised = None
        /\ output = GeneratedFrom
                        \o SubdirLines("", KeyGet(operations, "SUBDIRS"))
                        \o ChildLines(scopes, scopes[1].children, "")

\* The scopes below scope s in the tree: its children and theirs.
RECURSIVE Descendants(_, _)
Descendants(scs, s) ==
    Range(scs[s].children)
        \cup UNION {Descendants(scs, c) : c \in Range(scs[s].children)}

\* C23: after recursive_evaluate_scope every descendant of a scope whose
\* total_condition is OFF has the total_condition OFF as well, so that
\* merge_scopes keeps no scope that is nested inside a scope it dropped.
C23_OffScopeHasOffDescendants ==
    [][(pc = "flattened" /\ pc' = "merged") =>
           \A s \in Range(flat) :
               scopes[s].total_condition = "OFF" =>
                   \A d \in Descendants(scopes, s) :
                       /\ scopes[d].total_condition = "OFF"
                       /\ d \notin Range(merged')]_vars

====
